---- MODULE Spec2Model ----
(***************************************************************************)
(* A model of the MySha library: the SHA-256 engine (sha256/mod.rs and     *)
(* sha256/helper_functions.rs) and the elliptic-curve engine with its      *)
(* ECDSA protocol (ecc/ecc_math.rs and ecc/mod.rs).                        *)
(*                                                                         *)
(* Data.  A u32 is the pair <<high, low>> of its 16-bit halves.  A &str    *)
(* is the sequence of its bytes, a string of '0'/'1' characters after      *)
(* decoding a sequence of bits.  A BigInt or BigUint is an integer.  An    *)
(* i32 is an integer in I32Min..I32Max whose arithmetic is checked for     *)
(* overflow.  A Result is Ok(v) or Err(e); a panic is the outcome          *)
(* Panic(m).                                                               *)
(*                                                                         *)
(* Machines.  The module states its specifications over one set of         *)
(* variables, one per entry point family of the library:                   *)
(*   Spec         a call of Curve::new on arbitrary parameters;            *)
(*   PointSpec    a call of add, double or multiply on a constructed       *)
(*                curve;                                                   *)
(*   EcdsaSpec    key construction, sign and verify on a constructed       *)
(*                curve;                                                   *)
(*   KeySpec      key construction, KeyPair::from_private and              *)
(*                KeyPair::public on a constructed curve;                  *)
(*   SigSpec      PubKey::new, Signature::new and verify on a constructed  *)
(*                curve;                                                   *)
(*   ModSpec      a call of get_mod, or of mod_inv with its loop run pass  *)
(*                by pass; ModFairSpec adds that the caller keeps running; *)
(*   ShaSpec      a call of sha256, and a second call on its digest or on  *)
(*                its bytes written in hexadecimal;                        *)
(*   PadSpec      a call of pad, then of get_message_blocks;               *)
(*   HashSpec     a call of Hash256::from_hex, then of get_hex or          *)
(*                get_hex_le.                                              *)
(***************************************************************************)
EXTENDS Integers, Sequences, FiniteSets, TLC

VARIABLES
    curve,    \* the Curve in use, or None
    key,      \* the KeyPair or PrivKey in use, or None
    sig,      \* the Signature in use, or None
    origin,   \* the arguments of the call of sign that produced sig, or None
    call,     \* the last call made: its name and arguments
    ret       \* what the last call returned

vars == <<curve, key, sig, origin, call, ret>>

None == [op |-> "none"]

----------------------------------------------------------------------------
(* Bounds of the model.                                                    *)

\* Longest string drawn from ShaAlphabet as an input of sha256.
MaxTextLen == 2

\* Largest modulus p given to Curve::new (besides the named curves).
MaxP == 5

\* Largest order n given to Curve::new.
MaxN == 6

\* Largest absolute value of the small coefficients a, b given to Curve::new.
MaxCoef == 1

\* Largest digest integer of a signed or verified message.
MaxE == 7

\* Largest absolute value of a scalar k given to multiply.
MaxK == 7

\* The longest of the short bit strings given to pad, and the distance of
\* the others from the lengths 448, 512 and 960.
MaxBitLen == 8

\* Largest seed of the digit patterns of the strings given to from_hex.
MaxHexSeed == 2

\* Largest absolute value of the number a given to mod_inv and get_mod.
MaxA == 12

\* Largest absolute value of the modulus given to mod_inv and get_mod.
MaxM == 9

----------------------------------------------------------------------------
(* sha256/helper_functions.rs: operations on 32-bit words.  A u32 is the   *)
(* pair <<high, low>> of its 16-bit halves.                                *)

WordBits == 32

HalfBits == WordBits \div 2

Half == 2^HalfBits

\* format!("{:0w$b}", n): the w low bits of n, most significant first
\* (n is below 2^31, so the bits above the 31st are zero).
ToBits(n, w) ==
    SubSeq([i \in 1..w |-> IF w - i > 30 THEN 0 ELSE (n \div 2^(w - i)) % 2], 1, w)

\* from_str_radix(bits[i..j], 2) for at most 30 bits.
RECURSIVE FromBits(_, _, _)
FromBits(bits, i, j) ==
    IF i > j THEN 0
    ELSE IF i = j THEN bits[i]
    ELSE LET mid == (i + j) \div 2
         IN FromBits(bits, i, mid) * 2^(j - mid) + FromBits(bits, mid + 1, j)

\* format!("{:032b}", x)
WordToBits(x) == ToBits(x[1], HalfBits) \o ToBits(x[2], HalfBits)

\* u32::from_str_radix(bits, 2) of 32 bits
WordFromBits(bits) ==
    <<FromBits(bits, 1, HalfBits), FromBits(bits, HalfBits + 1, WordBits)>>

add(a, b) ==
    <<(a[1] + b[1] + (a[2] + b[2]) \div Half) % Half, (a[2] + b[2]) % Half>>

\* sum = add(sum, num) for each num in order, from 0.
RECURSIVE addn(_)
addn(nums) ==
    IF nums = <<>> THEN <<0, 0>>
    ELSE add(addn(SubSeq(nums, 1, Len(nums) - 1)), nums[Len(nums)])

\* x.rotate_right(n), 0 <= n < 32
rotate_right(x, n) ==
    LET v == IF n >= HalfBits THEN <<x[2], x[1]>> ELSE x
        m == n % HalfBits
    IN <<v[1] \div 2^m + (v[2] % 2^m) * 2^(HalfBits - m),
         v[2] \div 2^m + (v[1] % 2^m) * 2^(HalfBits - m)>>

\* x >> n, 0 <= n < 32
shr(x, n) ==
    IF n >= HalfBits THEN <<0, x[1] \div 2^(n - HalfBits)>>
    ELSE <<x[1] \div 2^n, x[2] \div 2^n + (x[1] % 2^n) * 2^(HalfBits - n)>>

\* a ^ b on 16 bits
XorHalf(a, b) ==
    FromBits([i \in 1..HalfBits |->
                 ((a \div 2^(HalfBits - i)) + (b \div 2^(HalfBits - i))) % 2], 1, HalfBits)

xor(a, b) == <<XorHalf(a[1], b[1]), XorHalf(a[2], b[2])>>

\* A faulty l_sigma0: the shift of l_sigma1.
l_sigma0_shift10(bits) == xor(xor(rotate_right(bits, 7), rotate_right(bits, 18)), shr(bits, 10))

l_sigma0(bits) == xor(xor(rotate_right(bits, 7), rotate_right(bits, 18)), shr(bits, 3))

l_sigma1(bits) == xor(xor(rotate_right(bits, 17), rotate_right(bits, 19)), shr(bits, 10))

u_sigma0(bits) ==
    xor(xor(rotate_right(bits, 2), rotate_right(bits, 13)), rotate_right(bits, 22))

u_sigma1(bits) ==
    xor(xor(rotate_right(bits, 6), rotate_right(bits, 11)), rotate_right(bits, 25))

choice(a, b, c) ==
    LET sa == WordToBits(a)
        sb == WordToBits(b)
        sc == WordToBits(c)
    IN WordFromBits([i \in 1..WordBits |-> IF sa[i] = 1 THEN sb[i] ELSE sc[i]])

majority(a, b, c) ==
    LET sa == WordToBits(a)
        sb == WordToBits(b)
        sc == WordToBits(c)
    IN WordFromBits([i \in 1..WordBits |-> IF sa[i] = sb[i] THEN sa[i] ELSE sc[i]])

----------------------------------------------------------------------------
(* sha256/helper_functions.rs: constants.                                  *)

\* is_prime of the loop: i is divisible by none of the primes found so far,
\* which is to say by no smaller number above 1.
IsPrime(i) == \A j \in 2..(i - 1) : i % j # 0

\* The primes among lo..hi, in increasing order.
RECURSIVE PrimesIn(_, _)
PrimesIn(lo, hi) ==
    IF lo > hi THEN <<>>
    ELSE IF lo = hi THEN (IF IsPrime(lo) THEN <<lo>> ELSE <<>>)
    ELSE PrimesIn(lo, (lo + hi) \div 2) \o PrimesIn((lo + hi) \div 2 + 1, hi)

\* The loop runs i upwards until n primes are found.
RECURSIVE PrimesUntil(_, _)
PrimesUntil(n, hi) ==
    IF Len(PrimesIn(2, hi)) >= n THEN SubSeq(PrimesIn(2, hi), 1, n)
    ELSE PrimesUntil(n, 2 * hi)

get_primes(n) == PrimesUntil(n, 2)

\* ((sqrt(p) - trunc(sqrt(p))) * 2^32) as u32 in f64 arithmetic, for the
\* first 8 primes in order, each as its two 16-bit halves.
SqrtFraction ==
    <<
       <<27145, 58983>>, <<47975, 44677>>, <<15470, 62322>>, <<42319, 62778>>,
       <<20750, 21119>>, <<39685, 26764>>, <<8067, 55723>>, <<23520, 52505>>
    >>

\* ((cbrt(p) - trunc(cbrt(p))) * 2^32) as u32 in f64 arithmetic, for the
\* first 64 primes in order, each as its two 16-bit halves.
CbrtFraction ==
    <<
       <<17034, 12184>>, <<28983, 17553>>, <<46528, 64463>>, <<59829, 56229>>,
       <<14678, 49755>>, <<23025, 4593>>, <<37439, 33444>>, <<43804, 24277>>,
       <<55303, 43672>>, <<4739, 23297>>, <<9265, 34238>>, <<21772, 32195>>,
       <<29374, 23924>>, <<32990, 45566>>, <<39900, 1703>>, <<49563, 61812>>,
       <<58523, 27073>>, <<61374, 18310>>, <<4033, 40390>>, <<9228, 41420>>,
       <<11753, 11375>>, <<19060, 33962>>, <<23728, 43484>>, <<30457, 35034>>,
       <<38974, 20818>>, <<43057, 50797>>, <<45059, 10184>>, <<48985, 32711>>,
       <<50912, 3059>>, <<54695, 37191>>, <<1738, 25425>>, <<5161, 10599>>,
       <<10167, 2693>>, <<11803, 8504>>, <<19756, 28156>>, <<21304, 3347>>,
       <<25866, 29524>>, <<30314, 2747>>, <<33218, 51502>>, <<37490, 11397>>,
       <<41663, 59553>>, <<43034, 26187>>, <<49739, 35696>>, <<51052, 20899>>,
       <<53650, 59417>>, <<54937, 1572>>, <<62478, 13701>>, <<4202, 41072>>,
       <<6564, 49430>>, <<7735, 27656>>, <<10056, 30540>>, <<13488, 48309>>,
       <<14620, 3251>>, <<20184, 43594>>, <<23452, 51791>>, <<26670, 28659>>,
       <<29839, 33518>>, <<30885, 25455>>, <<33992, 30740>>, <<36039, 520>>,
       <<37054, 65530>>, <<42064, 27883>>, <<48889, 41975>>, <<50801, 30962>>
    >>

initialize_a == [i \in 1..Len(get_primes(8)) |-> SqrtFraction[i]]

initialize_k == [i \in 1..Len(get_primes(64)) |-> CbrtFraction[i]]

----------------------------------------------------------------------------
(* sha256/helper_functions.rs: binary_handling.  A &str is the sequence of *)
(* its UTF-8 bytes; the characters the library reads are ASCII.            *)

\* Result::Ok(v).
Ok(v) == [ok |-> TRUE, val |-> v]

\* Result::Err(e).
Err(e) == [ok |-> FALSE, panic |-> FALSE, err |-> e]

\* The call did not return: the thread panicked with message m.
Panic(m) == [ok |-> FALSE, panic |-> TRUE, err |-> m]

\* let v = ...; followed by the statements In, which read the binding.
Let(v, In(_)) == In(v)

\* The value of an ASCII character as a digit in the radix, or -1: what
\* char::to_digit gives from_str_radix ('0'-'9', 'a'-'z', 'A'-'Z').
DigitOf(c, radix) ==
    LET d == IF c >= 48 /\ c <= 57 THEN c - 48
             ELSE IF c >= 97 /\ c <= 122 THEN c - 87
             ELSE IF c >= 65 /\ c <= 90 THEN c - 55
             ELSE -1
    IN IF d >= 0 /\ d < radix THEN d ELSE -1

\* The concatenation of seqs[i..j].
RECURSIVE ConcatRange(_, _, _)
ConcatRange(seqs, i, j) ==
    IF i > j THEN <<>>
    ELSE IF i = j THEN seqs[i]
    ELSE ConcatRange(seqs, i, (i + j) \div 2) \o ConcatRange(seqs, (i + j) \div 2 + 1, j)

Concat(seqs) == ConcatRange(seqs, 1, Len(seqs))

\* (0..s.len()).step_by(size).rev().map(|i| &s[i..i+size]).collect(), for a
\* length that is a multiple of size.
ReverseChunks(s, size) ==
    [i \in 1..Len(s) |->
        s[(Len(s) \div size - 1 - (i - 1) \div size) * size + ((i - 1) % size) + 1]]

\* A faulty get_binary_message: the bytes formatted with {:b}, without the
\* leading zeros.
get_binary_message_unpadded(message) ==
    Concat([i \in 1..Len(message) |->
        LET b == ToBits(message[i], 8)
            first == IF \E j \in 1..8 : b[j] = 1
                     THEN CHOOSE j \in 1..8 : b[j] = 1 /\ \A l \in 1..(j - 1) : b[l] = 0
                     ELSE 8
        IN SubSeq(b, first, 8)])

get_binary_message(message) ==
    Concat([i \in 1..Len(message) |-> ToBits(message[i], 8)])

validate_bits(message) ==
    IF \E i \in 1..Len(message) : message[i] # 48 /\ message[i] # 49
    THEN Err("InvalidBinary")
    ELSE Ok(<<>>)

\* The bits a validated string of '0' and '1' stands for.
BitsOfStr(message) == [i \in 1..Len(message) |-> message[i] - 48]

get_bits_hex(message, le) ==
    IF le /\ Len(message) % 2 # 0 THEN Err("NotWholeBytes")
    ELSE LET m == IF le THEN ReverseChunks(message, 2) ELSE message
         IN IF \E i \in 1..Len(m) : DigitOf(m[i], 16) < 0
            THEN Err("InvalidHex")
            ELSE Ok(Concat([i \in 1..Len(m) |-> ToBits(DigitOf(m[i], 16), 4)]))

\* The zeros the loop of pad appends: the least count that makes
\* (len + 64) % 512 = 0, for a string of length len.
ZeroFill(len) ==
    [i \in 1..(CHOOSE k \in 0..511 :
                   /\ (len + k + 64) % 512 = 0
                   /\ \A j \in 0..(k - 1) : (len + j + 64) % 512 # 0) |-> 0]

\* A faulty pad: the size is measured after the 1 has been appended.
pad_size_after_one(message) ==
    Append(message, 1) \o ZeroFill(Len(message) + 1) \o ToBits(Len(message) + 1, 64)

pad(message) ==
    Append(message, 1) \o ZeroFill(Len(message) + 1) \o ToBits(Len(message), 64)

get_message_blocks(message) ==
    [i \in 1..(Len(message) \div 512) |-> SubSeq(message, (i - 1) * 512 + 1, i * 512)]

get_message_schedule(block) ==
    [i \in 1..(Len(block) \div WordBits) |->
        WordFromBits(SubSeq(block, (i - 1) * WordBits + 1, i * WordBits))]

----------------------------------------------------------------------------
(* sha256/mod.rs: the hash function.                                       *)

InputTypes == {"Text", "Binary", "LeBinary", "Hex", "LeHex", "Decimal"}

\* for i in 16..64: push addn([l_sigma1(w[i-2]), w[i-7], l_sigma0(w[i-15]), w[i-16]])
\* (the schedule is indexed from 1 here): the schedule pushed up to length n.
RECURSIVE ExpandSchedule(_, _)
ExpandSchedule(w, n) ==
    IF Len(w) >= n THEN w
    ELSE IF Len(w) + 1 = n
    THEN Append(w, addn(<<l_sigma1(w[n - 2]), w[n - 7], l_sigma0(w[n - 15]), w[n - 16]>>))
    ELSE ExpandSchedule(ExpandSchedule(w, (Len(w) + n) \div 2), n)

\* One pass of the loop over the message schedule, on st = [i, s] with
\* s = <<a, b, c, d, e, f, g, h>> and i the index of enumerate (from 1 here).
Round(st, k, w) ==
    LET s == st.s
        t1 == addn(<<u_sigma1(s[5]), choice(s[5], s[6], s[7]), s[8], k[st.i], w[st.i]>>)
        t2 == add(u_sigma0(s[1]), majority(s[1], s[2], s[3]))
    IN [i |-> st.i + 1,
        s |-> <<add(t1, t2), s[1], s[2], s[3], add(s[4], t1), s[5], s[6], s[7]>>]

\* The passes of that loop from st.i up to j, in order.
RECURSIVE Rounds(_, _, _, _)
Rounds(st, k, w, j) ==
    IF st.i > j THEN st
    ELSE IF st.i = j THEN Round(st, k, w)
    ELSE Rounds(Rounds(st, k, w, (st.i + j) \div 2), k, w, j)

\* The body of the loop over the blocks: the new a0..h0.
Compress(h0, k, block) ==
    LET w == ExpandSchedule(get_message_schedule(block), 64)
        s == Rounds([i |-> 1, s |-> h0], k, w, Len(w)).s
    IN <<add(s[1], h0[1]), add(s[2], h0[2]), add(s[3], h0[3]), add(s[4], h0[4]),
         add(s[5], h0[5]), add(s[6], h0[6]), add(s[7], h0[7]), add(s[8], h0[8])>>

RECURSIVE CompressAll(_, _, _)
CompressAll(h0, k, blocks) ==
    IF blocks = <<>> THEN h0
    ELSE CompressAll(Compress(h0, k, Head(blocks)), k, Tail(blocks))

\* The ASCII character of a hexadecimal digit, lowercase.
HexChar(d) == IF d < 10 THEN 48 + d ELSE 87 + d

\* format!("{:08x}", word)
Hex8(word) ==
    [i \in 1..8 |-> HexChar(IF i <= 4 THEN (word[1] \div 16^(4 - i)) % 16
                                     ELSE (word[2] \div 16^(8 - i)) % 16)]

\* The decimal digits of i128::MAX, 2^127 - 1.
I128MaxDigits ==
    <<1, 7, 0, 1, 4, 1, 1, 8, 3, 4, 6, 0, 4, 6, 9, 2, 3, 1, 7, 3,
      1, 6, 8, 7, 3, 0, 3, 7, 1, 5, 8, 8, 4, 1, 0, 5, 7, 2, 7>>

\* The decimal digits of the magnitude of i128::MIN, 2^127.
I128MinDigits == [I128MaxDigits EXCEPT ![39] = 8]

\* A sequence of decimal digits without its leading zeros.
StripZeros(ds) ==
    IF \A i \in 1..Len(ds) : ds[i] = 0 THEN <<>>
    ELSE SubSeq(ds, CHOOSE i \in 1..Len(ds) : ds[i] # 0 /\ \A j \in 1..(i - 1) : ds[j] = 0,
                Len(ds))

\* x > y for the numbers whose digits x and y are.
DigitsGreater(x, y) ==
    LET a == StripZeros(x)
        b == StripZeros(y)
    IN \/ Len(a) > Len(b)
       \/ /\ Len(a) = Len(b)
          /\ \E i \in 1..Len(a) : a[i] > b[i] /\ \A j \in 1..(i - 1) : a[j] = b[j]

\* The number that the digits ds[1..i] stand for, modulo 256: 10^8 is a
\* multiple of 256, so the last eight digits decide.
PrefixMod256(ds, i) ==
    LET D(j) == IF j >= 1 THEN ds[j] ELSE 0
    IN (D(i) + 10 * D(i - 1) + 100 * D(i - 2) + 1000 * D(i - 3) + 10000 * D(i - 4)
          + 100000 * D(i - 5) + 1000000 * D(i - 6) + 10000000 * D(i - 7)) % 256

\* The digits of the number whose decimal digits ds are, divided by 256
\* (rounded down): the long division, whose remainder before the digit i
\* is the prefix ds[1..i-1] modulo 256.
DivDigitsBy256(ds) ==
    SubSeq([i \in 1..Len(ds) |-> (PrefixMod256(ds, i - 1) * 10 + ds[i]) \div 256], 1, Len(ds))

\* The n low bytes of the number whose decimal digits ds are, as bits, most
\* significant first.
RECURSIVE DigitsToBits(_, _)
DigitsToBits(ds, n) ==
    IF n = 0 THEN <<>>
    ELSE DigitsToBits(DivDigitsBy256(ds), n - 1) \o ToBits(PrefixMod256(ds, Len(ds)), 8)

\* str::parse::<i128>() of the standard library: an optional sign, then
\* decimal digits read from the left, each one checked and then
\* accumulated with a check for overflow.  Ok of the sign and the digits
\* of the magnitude, or Err of the IntErrorKind.
parse_i128(message) ==
    IF message = <<>> THEN Err("Empty")
    ELSE IF message = <<43>> \/ message = <<45>> THEN Err("InvalidDigit")
    ELSE LET signed == message[1] \in {43, 45}
             negative == message[1] = 45
             digits == IF signed THEN Tail(message) ELSE message
             limit == IF negative THEN I128MinDigits ELSE I128MaxDigits
             Bad(i) == \/ DigitOf(digits[i], 10) < 0
                       \/ DigitsGreater([j \in 1..i |-> DigitOf(digits[j], 10)], limit)
         IN IF \E i \in 1..Len(digits) : Bad(i)
            THEN LET first == CHOOSE i \in 1..Len(digits) :
                                  Bad(i) /\ \A j \in 1..(i - 1) : ~Bad(j)
                 IN IF DigitOf(digits[first], 10) < 0 THEN Err("InvalidDigit")
                    ELSE IF negative THEN Err("NegOverflow")
                    ELSE Err("PosOverflow")
            ELSE Ok([negative |-> negative,
                     digits |-> StripZeros([j \in 1..Len(digits) |-> DigitOf(digits[j], 10)])])

\* format!("{:b}", v) for an i128 v: the binary digits of a value that is
\* not negative, without leading zeros, and the 128 bits of the two's
\* complement of a negative one.
format_b(v) ==
    LET bits == DigitsToBits(v.digits, 16)
    IN IF v.digits = <<>> THEN <<0>>
       ELSE LET low == CHOOSE i \in 1..128 : bits[i] = 1 /\ \A j \in (i + 1)..128 : bits[j] = 0
                high == CHOOSE i \in 1..128 : bits[i] = 1 /\ \A j \in 1..(i - 1) : bits[j] = 0
            IN IF v.negative
               THEN [i \in 1..128 |-> IF i < low THEN 1 - bits[i] ELSE bits[i]]
               ELSE SubSeq(bits, high, 128)

\* The bit string of the match on input_type.
DecodeInput(message, input_type) ==
    CASE input_type = "Binary" ->
           IF validate_bits(message).ok THEN Ok(BitsOfStr(message))
           ELSE validate_bits(message)
      [] input_type = "LeBinary" ->
           IF ~validate_bits(message).ok THEN validate_bits(message)
           ELSE IF Len(message) % 8 # 0 THEN Err("NotWholeBytes")
           ELSE Ok(BitsOfStr(ReverseChunks(message, 8)))
      [] input_type = "Text" -> Ok(get_binary_message(message))
      [] input_type = "Hex" -> get_bits_hex(message, FALSE)
      [] input_type = "LeHex" -> get_bits_hex(message, TRUE)
      [] input_type = "Decimal" ->
           Let(parse_i128(message), LAMBDA parsed :
           IF parsed.ok THEN Ok(format_b(parsed.val))
           ELSE IF parsed.err = "PosOverflow" THEN Err("DecimalTooBig")
           ELSE Err("InvalidDecimal"))

sha256(message, input_type) ==
    LET bits == DecodeInput(message, input_type)
    IN IF ~bits.ok THEN bits
       ELSE LET message_blocks == get_message_blocks(pad(bits.val))
                a == initialize_a
                h == CompressAll(<<a[1], a[2], a[3], a[4], a[5], a[6], a[7], a[8]>>,
                                 initialize_k, message_blocks)
            IN Ok(Concat([i \in 1..8 |-> Hex8(h[i])]))

----------------------------------------------------------------------------
(* sha256/mod.rs: Hash256, the string of a digest.                         *)

\* The characters of "0123456789abcdef".
ValidHashChars == (48..57) \cup (97..102)

from_hex(hex, le) ==
    IF Len(hex) # 64 THEN Err("InvalidHash")
    ELSE IF \E i \in 1..Len(hex) : hex[i] \notin ValidHashChars THEN Err("InvalidHash")
    ELSE IF le THEN Ok(ReverseChunks(hex, 2))
    ELSE Ok(hex)

get_hex(self) == self

\* A faulty get_hex_le: the digits are reversed one by one.
get_hex_le_by_digit(self) == ReverseChunks(get_hex(self), 1)

get_hex_le(self) == ReverseChunks(get_hex(self), 2)

----------------------------------------------------------------------------
(* ecc/ecc_math.rs: modular arithmetic on BigInt.                          *)

\* The % of Rust on BigInt: the remainder has the sign of the dividend.
RustRem(x, m) ==
    LET d == IF m < 0 THEN -m ELSE m
    IN IF x >= 0 THEN x % d ELSE -((-x) % d)

\* The quotient x / m of Rust for m > 0: it truncates toward zero.
RustDiv(x, m) == IF x >= 0 THEN x \div m ELSE -((-x) \div m)

\* A faulty get_mod: the remainder of Rust, which is negative for a
\* negative x.
get_mod_remainder(x, p) ==
    IF p = 0 THEN Err("DivisionByZero")
    ELSE Ok(RustRem(x, p))

get_mod(x, p) ==
    IF p = 0 THEN Err("DivisionByZero")
    ELSE Ok(RustRem(RustRem(x, p) + p, p))

\* The while loop of mod_inv: the value of y when a <= 1.
RECURSIVE ModInvLoop(_, _, _, _)
ModInvLoop(a, m, y0, y) ==
    IF a > 1
    THEN LET q == RustDiv(m, a)
         IN ModInvLoop(RustRem(m, a), a, y, y0 - q * y)
    ELSE y

mod_inv(a0, p) ==
    IF a0 = 0 THEN Err("DivisionByZero")
    ELSE Let(IF a0 < 0 THEN get_mod(a0, p) ELSE Ok(a0), LAMBDA a :
         IF ~a.ok THEN a
         ELSE Let(get_mod(ModInvLoop(a.val, p, 0, 1), p), LAMBDA result :
              IF ~result.ok THEN result
              ELSE IF get_mod(result.val * a0, p).val # 1 THEN Err("NotPrime")
              ELSE result))

----------------------------------------------------------------------------
(* ecc/ecc_math.rs: i32 arithmetic.  An overflowing operation panics in a  *)
(* build with overflow checks (debug) and wraps modulo 2^32 in a build     *)
(* without them (release).                                                 *)

I32Max == 2147483647

I32Min == -I32Max - 1

Abs(x) == IF x < 0 THEN -x ELSE x

AddOverflows(x, y) ==
    \/ x > 0 /\ y > 0 /\ x > I32Max - y
    \/ x < 0 /\ y < 0 /\ x < I32Min - y

\* i32::wrapping_add.
WrapAdd(x, y) ==
    IF ~AddOverflows(x, y) THEN x + y
    ELSE IF x > 0 THEN (x - I32Max - 1) + (y - I32Max - 1)
    ELSE (x + I32Max + 1) + (y + I32Max + 1)

\* The mathematical product of x and y is outside I32Min..I32Max.
MulOverflows(x, y) ==
    /\ x # 0
    /\ y # 0
    /\ IF x = I32Min \/ y = I32Min THEN ~(x = 1 \/ y = 1)
       ELSE LET q == I32Max \div Abs(y)
                r == I32Max % Abs(y)
            IN IF (x < 0) = (y < 0) THEN Abs(x) > q
               ELSE ~(Abs(x) <= q \/ (Abs(x) = q + 1 /\ r = Abs(y) - 1))

\* The bits of an i32 as a u32, v as u32.
ToU32(v) ==
    IF v >= 0 THEN <<v \div Half, v % Half>>
    ELSE <<((v + I32Max + 1) \div Half) + Half \div 2, (v + I32Max + 1) % Half>>

\* The i32 with the bits of a u32, w as i32.
FromU32(w) ==
    IF w[1] >= Half \div 2 THEN ((w[1] - Half \div 2) * Half + w[2]) - I32Max - 1
    ELSE w[1] * Half + w[2]

\* w << n on a u32 for n in {0, 8, 16, 24}.
ShlBytes(w, n) ==
    CASE n = 0 -> w
      [] n = 8 -> <<(w[1] * 256 + w[2] \div 256) % Half, (w[2] * 256) % Half>>
      [] n = 16 -> <<w[2], 0>>
      [] n = 24 -> <<(w[2] * 256) % Half, 0>>

\* The product of a u32 and a byte modulo 2^32.
MulByte(w, byte) == <<(w[1] * byte + (w[2] * byte) \div Half) % Half, (w[2] * byte) % Half>>

\* i32::wrapping_mul: the product modulo 2^32, byte by byte of y.
WrapMul(x, y) ==
    IF ~MulOverflows(x, y) THEN x * y
    ELSE LET wx == ToU32(x)
             wy == ToU32(y)
             byte(j) == IF j < 2 THEN (wy[2] \div 256^j) % 256
                        ELSE (wy[1] \div 256^(j - 2)) % 256
         IN FromU32(addn([j \in 1..4 |-> ShlBytes(MulByte(wx, byte(j - 1)), 8 * (j - 1))]))

\* An i32 value together with whether an operation overflowed on the way.
I32(v, o) == [val |-> v, ovf |-> o]

I32Mul(x, y) == I32(WrapMul(x.val, y.val), x.ovf \/ y.ovf \/ MulOverflows(x.val, y.val))

I32Add(x, y) == I32(WrapAdd(x.val, y.val), x.ovf \/ y.ovf \/ AddOverflows(x.val, y.val))

\* i32::pow: the product of exp copies of base.
RECURSIVE I32Pow(_, _)
I32Pow(base, exp) ==
    IF exp = 0 THEN I32(1, FALSE)
    ELSE I32Mul(I32Pow(base, exp - 1), I32(base, FALSE))

\* 4 * a.pow(3) + 27 * b.pow(2) of Curve::new.
Discriminant(a, b) ==
    I32Add(I32Mul(I32(4, FALSE), I32Pow(a, 3)), I32Mul(I32(27, FALSE), I32Pow(b, 2)))

----------------------------------------------------------------------------
(* ecc/ecc_math.rs: Point and Curve.                                       *)

\* Point::PointAtInfinity.
PointAtInfinity == [inf |-> TRUE]

\* Point::Point{x, y}.
Point(x, y) == [inf |-> FALSE, x |-> x, y |-> y]

point_neg(P, prime) ==
    IF P.inf THEN Ok(PointAtInfinity)
    ELSE Let(get_mod(-P.y, prime), LAMBDA y :
         IF ~y.ok THEN y ELSE Ok(Point(P.x, y.val)))

\* The struct Curve.
Curve(a, b, p, n, g) == [a |-> a, b |-> b, p |-> p, n |-> n, g |-> g]

is_on_curve(self, P) ==
    IF P.inf THEN TRUE
    ELSE RustRem(P.y * P.y - P.x * P.x * P.x - P.x * self.a - self.b, self.p) = 0

\* A faulty double: the tangent slope without the coefficient a.
double_without_a(self, P) ==
    IF ~is_on_curve(self, P) THEN Err("NotOnCurve")
    ELSE IF P.inf THEN Ok(PointAtInfinity)
    ELSE IF P.y = 0 THEN Ok(PointAtInfinity)
    ELSE Let(mod_inv(2 * P.y, self.p), LAMBDA inv :
         IF ~inv.ok THEN inv
         ELSE Let(get_mod((P.x * P.x * 3) * inv.val, self.p).val, LAMBDA slope :
              Let(get_mod(slope * slope - 2 * P.x, self.p).val, LAMBDA x1 :
              Let(get_mod(slope * (P.x - x1) - P.y, self.p).val, LAMBDA y1 :
              Ok(Point(x1, y1))))))

double(self, P) ==
    IF ~is_on_curve(self, P) THEN Err("NotOnCurve")
    ELSE IF P.inf THEN Ok(PointAtInfinity)
    ELSE IF P.y = 0 THEN Ok(PointAtInfinity)
    ELSE Let(mod_inv(2 * P.y, self.p), LAMBDA inv :
         IF ~inv.ok THEN inv
         ELSE Let(get_mod((P.x * P.x * 3 + self.a) * inv.val, self.p).val, LAMBDA slope :
              Let(get_mod(slope * slope - 2 * P.x, self.p).val, LAMBDA x1 :
              Let(get_mod(slope * (P.x - x1) - P.y, self.p).val, LAMBDA y1 :
              Ok(Point(x1, y1))))))

\* A faulty add: the chord formula with x = slope^2 - 2 * px, which is not
\* symmetric in its arguments.
Curve_add_one_sided(self, P, Q) ==
    IF ~(is_on_curve(self, P) /\ is_on_curve(self, Q)) THEN Err("NotOnCurve")
    ELSE IF P = Q THEN double(self, P)
    ELSE IF P.inf THEN Ok(Q)
    ELSE IF Q.inf THEN Ok(P)
    ELSE IF P.x = Q.x THEN Ok(PointAtInfinity)
    ELSE Let(mod_inv(P.x - Q.x, self.p), LAMBDA inv :
         IF ~inv.ok THEN inv
         ELSE Let(get_mod((P.y - Q.y) * inv.val, self.p).val, LAMBDA slope :
              Let(get_mod(slope * slope - P.x - P.x, self.p).val, LAMBDA x :
              Let(get_mod(slope * (P.x - x) - P.y, self.p).val, LAMBDA y :
              Ok(Point(x, y))))))

Curve_add(self, P, Q) ==
    IF ~(is_on_curve(self, P) /\ is_on_curve(self, Q)) THEN Err("NotOnCurve")
    ELSE IF P = Q THEN double(self, P)
    ELSE IF P.inf THEN Ok(Q)
    ELSE IF Q.inf THEN Ok(P)
    ELSE IF P.x = Q.x THEN Ok(PointAtInfinity)
    ELSE Let(mod_inv(P.x - Q.x, self.p), LAMBDA inv :
         IF ~inv.ok THEN inv
         ELSE Let(get_mod((P.y - Q.y) * inv.val, self.p).val, LAMBDA slope :
              Let(get_mod(slope * slope - P.x - Q.x, self.p).val, LAMBDA x :
              Let(get_mod(slope * (P.x - x) - P.y, self.p).val, LAMBDA y :
              Ok(Point(x, y))))))

\* The loop of multiply over the binary digits of k >= 1 after the first:
\* the value of current once the digits of k are consumed, P being the
\* (possibly negated) point.
RECURSIVE MultiplyLoop(_, _, _)
MultiplyLoop(self, P, k) ==
    IF k = 1 THEN Ok(P)
    ELSE Let(MultiplyLoop(self, P, k \div 2), LAMBDA before :
         IF ~before.ok THEN before
         ELSE Let(double(self, before.val), LAMBDA current :
              IF ~current.ok THEN current
              ELSE IF k % 2 = 1 THEN Curve_add(self, current.val, P)
              ELSE current))

multiply(self, P, k) ==
    IF k = 0 THEN Ok(PointAtInfinity)
    ELSE IF k < 0
    THEN Let(point_neg(P, self.p), LAMBDA neg :
         IF ~neg.ok THEN neg ELSE MultiplyLoop(self, neg.val, -k))
    ELSE MultiplyLoop(self, P, k)

\* Curve::new after the discriminant d has been computed.
CurveNewWith(d, a, b, p, n, g) ==
    Let(get_mod(d, p), LAMBDA singular :
    Let(Curve(a, b, p, n, g), LAMBDA curve_ :
    IF ~singular.ok THEN singular
    ELSE IF singular.val = 0 THEN Err("SingularCurve")
    ELSE IF n = 0 THEN Err("InvalidOrderN")
    ELSE Let(multiply(curve_, g, n), LAMBDA ng :
         IF ~ng.ok THEN ng
         ELSE IF ng.val # PointAtInfinity THEN Err("InvalidOrderN")
         ELSE IF ~is_on_curve(curve_, g) THEN Err("GeneratorNotOnCurve")
         ELSE Ok(curve_))))

\* The outcomes of Curve::new(a, b, p, n, g): one, unless the discriminant
\* overflows, where the build decides between the panic and the wrapped
\* value.
Curve_new(a, b, p, n, g) ==
    IF g = PointAtInfinity THEN {Err("GeneratorOnInfinity")}
    ELSE Let(Discriminant(a, b), LAMBDA d :
         IF d.ovf
         THEN {Panic("attempt to multiply with overflow"),
               CurveNewWith(d.val, a, b, p, n, g)}
         ELSE {CurveNewWith(d.val, a, b, p, n, g)})

----------------------------------------------------------------------------
(* ecc/mod.rs: keys and signatures.  The digest of the message enters as   *)
(* hash, the Result of sha256 on it: Ok(e) with e the digest read as an    *)
(* integer (BigInt::from(&hash)), or an Err.  The nonce enters as z.       *)

\* The ? of sign and verify on a Result of the curve: an EccError becomes
\* MyshaError::Ecc by the From impl.
MyshaError(r) == IF r.ok \/ r.panic THEN r ELSE Err("Ecc(" \o r.err \o ")")

\* The ? of sign and verify on the Result of sha256: a HashError becomes
\* MyshaError::Hash.
HashFailure(r) == Err("Hash(" \o r.err \o ")")

\* A faulty KeyPair::new: the range test lets private = n through.
KeyPair_new_accepting_n(private, curve_) ==
    IF private = 0 \/ private > curve_.n THEN Err("InvalidPrivateKey")
    ELSE Let(multiply(curve_, curve_.g, private), LAMBDA public :
         IF ~public.ok THEN public
         ELSE Ok([type |-> "KeyPair", private |-> private,
                  public |-> public.val, curve |-> curve_]))

KeyPair_new(private, curve_) ==
    IF private = 0 \/ private >= curve_.n THEN Err("InvalidPrivateKey")
    ELSE Let(multiply(curve_, curve_.g, private), LAMBDA public :
         IF ~public.ok THEN public
         ELSE Ok([type |-> "KeyPair", private |-> private,
                  public |-> public.val, curve |-> curve_]))

PrivKey_new(private, curve_) ==
    IF private = 0 \/ private >= curve_.n THEN Err("InvalidPrivateKey")
    ELSE Ok([type |-> "PrivKey", private |-> private, curve |-> curve_])

KeyPair_from_private(private) ==
    Let(multiply(private.curve, private.curve.g, private.private), LAMBDA public :
    IF ~public.ok THEN public
    ELSE Ok([type |-> "KeyPair", private |-> private.private,
             public |-> public.val, curve |-> private.curve]))

\* The struct Signature.
Signature(r, s, curve_, public) == [r |-> r, s |-> s, curve |-> curve_, public |-> public]

\* The struct PubKey.
PubKey(public, curve_) == [type |-> "PubKey", public |-> public, curve |-> curve_]

\* KeyPair::public.
KeyPair_public(self) == PubKey(self.public, self.curve)

PubKey_new(public, curve_) ==
    IF ~is_on_curve(curve_, public) THEN Err("NotOnCurve")
    ELSE IF public = PointAtInfinity THEN Err("PublicKeyOnInfinity")
    ELSE Ok(PubKey(public, curve_))

\* Signature::new on r and s of a type that converts into BigUint.
Signature_new(r, s, curve_, public) == Signature(r, s, curve_, public)

\* A faulty sign: r is the x coordinate of z * G, not reduced modulo n.
SignRS_unreduced_r(self, e, random_nonce) ==
    Let(self.curve.n, LAMBDA n :
    Let(multiply(self.curve, self.curve.g, random_nonce), LAMBDA zg :
    IF ~zg.ok THEN MyshaError(zg)
    ELSE IF zg.val.inf THEN Panic("unwrap on None")
    ELSE Let(Ok(zg.val.x), LAMBDA r :
         Let(mod_inv(random_nonce, n), LAMBDA inv :
         IF ~inv.ok THEN MyshaError(inv)
         ELSE Ok(<<r.val, get_mod(inv.val * (e + self.private * r.val), n).val>>)))))

\* The lines of sign that compute r and s, the same in KeyPair::sign and
\* PrivKey::sign: Ok(<<r, s>>), an error or a panic.
SignRS(self, e, random_nonce) ==
    Let(self.curve.n, LAMBDA n :
    Let(multiply(self.curve, self.curve.g, random_nonce), LAMBDA zg :
    IF ~zg.ok THEN MyshaError(zg)
    ELSE IF zg.val.inf THEN Panic("unwrap on None")
    ELSE Let(get_mod(zg.val.x, n), LAMBDA r :
         Let(mod_inv(random_nonce, n), LAMBDA inv :
         IF ~r.ok THEN MyshaError(r)
         ELSE IF ~inv.ok THEN MyshaError(inv)
         ELSE Ok(<<r.val, get_mod(inv.val * (e + self.private * r.val), n).val>>)))))

KeyPair_sign(self, hash, random_nonce) ==
    IF ~hash.ok THEN HashFailure(hash)
    ELSE Let(SignRS(self, hash.val, random_nonce), LAMBDA rs :
         IF ~rs.ok THEN rs
         ELSE Ok(Signature(rs.val[1], rs.val[2], self.curve, self.public)))

\* A faulty PrivKey::sign: the public point of the Signature is G.
PrivKey_sign_public_g(self, hash, random_nonce) ==
    IF ~hash.ok THEN HashFailure(hash)
    ELSE Let(SignRS(self, hash.val, random_nonce), LAMBDA rs :
         IF ~rs.ok THEN rs
         ELSE Ok(Signature(rs.val[1], rs.val[2], self.curve, self.curve.g)))

PrivKey_sign(self, hash, random_nonce) ==
    IF ~hash.ok THEN HashFailure(hash)
    ELSE Let(SignRS(self, hash.val, random_nonce), LAMBDA rs :
         IF ~rs.ok THEN rs
         ELSE Let(multiply(self.curve, self.curve.g, self.private), LAMBDA public :
              IF ~public.ok THEN MyshaError(public)
              ELSE Ok(Signature(rs.val[1], rs.val[2], self.curve, public.val))))

sign(self, hash, random_nonce) ==
    IF self.type = "KeyPair" THEN KeyPair_sign(self, hash, random_nonce)
    ELSE PrivKey_sign(self, hash, random_nonce)

\* A faulty verify: the digest term point1 is left out of the sum.
verify_without_digest(self, hash) ==
    IF ~hash.ok THEN HashFailure(hash)
    ELSE Let(mod_inv(self.s, self.curve.n), LAMBDA inv :
         IF ~inv.ok THEN MyshaError(inv)
         ELSE Let(multiply(self.curve, self.public, inv.val * self.r), LAMBDA point2 :
              IF ~point2.ok THEN MyshaError(point2)
              ELSE Ok(~point2.val.inf /\ point2.val.x = self.r)))

\* A faulty verify: a Signature whose s is above n / 2 is rejected.
verify_low_s(self, hash) ==
    IF ~hash.ok THEN HashFailure(hash)
    ELSE IF 2 * self.s > self.curve.n THEN Ok(FALSE)
    ELSE Let(mod_inv(self.s, self.curve.n), LAMBDA inv :
         IF ~inv.ok THEN MyshaError(inv)
         ELSE Let(multiply(self.curve, self.curve.g, hash.val * inv.val), LAMBDA point1 :
              Let(multiply(self.curve, self.public, inv.val * self.r), LAMBDA point2 :
              IF ~point1.ok THEN MyshaError(point1)
              ELSE IF ~point2.ok THEN MyshaError(point2)
              ELSE Let(Curve_add(self.curve, point1.val, point2.val), LAMBDA point3 :
                   IF ~point3.ok THEN MyshaError(point3)
                   ELSE Ok(~point3.val.inf /\ point3.val.x = self.r)))))

verify(self, hash) ==
    IF ~hash.ok THEN HashFailure(hash)
    ELSE Let(mod_inv(self.s, self.curve.n), LAMBDA inv :
         IF ~inv.ok THEN MyshaError(inv)
         ELSE Let(multiply(self.curve, self.curve.g, hash.val * inv.val), LAMBDA point1 :
              Let(multiply(self.curve, self.public, inv.val * self.r), LAMBDA point2 :
              IF ~point1.ok THEN MyshaError(point1)
              ELSE IF ~point2.ok THEN MyshaError(point2)
              ELSE Let(Curve_add(self.curve, point1.val, point2.val), LAMBDA point3 :
                   IF ~point3.ok THEN MyshaError(point3)
                   ELSE Ok(~point3.val.inf /\ point3.val.x = self.r)))))

----------------------------------------------------------------------------
(* The inputs the machines draw from.                                      *)

\* A curve over a field larger than MaxP: y^2 = x^3 + 2x + 3 over F_97 with
\* the generator (3, 6) of order 5.
ToyCurve == [a |-> 2, b |-> 3, p |-> 97, n |-> 5, g |-> Point(3, 6)]

\* The coefficients given to Curve::new: the small ones, and one whose cube
\* times four leaves the i32 range.
Coefs == (-MaxCoef..MaxCoef) \cup {1025}

\* The points with coordinates in 0..m, and the point at infinity.
PointsUpTo(m) == {PointAtInfinity} \cup {Point(x, y) : x \in 0..m, y \in 0..m}

\* The parameter tuples given to Curve::new.
CurveInputs ==
    {[a |-> a, b |-> b, p |-> p, n |-> n, g |-> g] :
        a \in Coefs, b \in Coefs, p \in 0..MaxP, n \in 0..MaxN, g \in PointsUpTo(MaxP)}
    \cup {[ToyCurve EXCEPT !.n = n, !.g = g] :
            n \in 0..MaxN, g \in {Point(3, 6), Point(3, 7), Point(0, 10), PointAtInfinity}}

\* The curves Curve::new returns in every build: on the parameter tuples
\* whose discriminant does not overflow.
AcceptedCurves ==
    {r.val : r \in {r \in UNION {Curve_new(i.a, i.b, i.p, i.n, i.g) :
                                    i \in {i \in CurveInputs : ~Discriminant(i.a, i.b).ovf}} :
                    r.ok}}

\* The points given to add, double and multiply on a curve: every pair of
\* coordinates in 0..p on a small field, on the toy curve the multiples of
\* (3, 6), further points of the curve and one point off it.
PointInputs(c) ==
    IF c.p <= MaxP THEN PointsUpTo(c.p)
    ELSE {PointAtInfinity, Point(3, 6), Point(80, 10), Point(80, 87), Point(3, 91),
          Point(17, 10), Point(95, 31), Point(24, 2), Point(0, 10), Point(3, 7)}

\* The scalars given to multiply: the small ones, and the scalar of the
\* documentation of multiply with its negation.
Scalars == (-MaxK..MaxK) \cup {35, -35}

\* add, double and multiply read only a, b and p of a curve: one curve for
\* each (a, b, p) among the accepted ones.
FieldCurves ==
    {c \in AcceptedCurves :
        c = CHOOSE d \in AcceptedCurves : d.a = c.a /\ d.b = c.b /\ d.p = c.p}

\* The results of sha256 on the messages signed and verified: a digest
\* integer, or the error of an undecodable message.
Hashes == {Ok(e) : e \in 0..MaxE} \cup {Err("InvalidHex")}

----------------------------------------------------------------------------
(* Spec: one call of Curve::new.                                           *)

Init ==
    /\ curve = None
    /\ key = None
    /\ sig = None
    /\ origin = None
    /\ call = None
    /\ ret = None

CallCurveNew ==
    /\ call = None
    /\ \E i \in CurveInputs :
        \E r \in Curve_new(i.a, i.b, i.p, i.n, i.g) :
            /\ call' = [op |-> "Curve::new", a |-> i.a, b |-> i.b, p |-> i.p,
                        n |-> i.n, g |-> i.g]
            /\ ret' = r
            /\ curve' = IF r.ok THEN r.val ELSE None
    /\ UNCHANGED <<key, sig, origin>>

Next == CallCurveNew

Spec == Init /\ [][Next]_vars

----------------------------------------------------------------------------
(* PointSpec: one call of add, double or multiply on a constructed curve.  *)

PointInit ==
    /\ curve \in FieldCurves
    /\ key = None
    /\ sig = None
    /\ origin = None
    /\ call = None
    /\ ret = None

CallAdd ==
    /\ call = None
    /\ \E P \in PointInputs(curve), Q \in PointInputs(curve) :
        /\ call' = [op |-> "add", p |-> P, q |-> Q]
        /\ ret' = Curve_add(curve, P, Q)
    /\ UNCHANGED <<curve, key, sig, origin>>

CallDouble ==
    /\ call = None
    /\ \E P \in PointInputs(curve) :
        /\ call' = [op |-> "double", p |-> P]
        /\ ret' = double(curve, P)
    /\ UNCHANGED <<curve, key, sig, origin>>

CallMultiply ==
    /\ call = None
    /\ \E P \in PointInputs(curve), k \in Scalars :
        /\ call' = [op |-> "multiply", p |-> P, k |-> k]
        /\ ret' = multiply(curve, P, k)
    /\ UNCHANGED <<curve, key, sig, origin>>

PointNext == CallAdd \/ CallDouble \/ CallMultiply

PointSpec == PointInit /\ [][PointNext]_vars

----------------------------------------------------------------------------
(* EcdsaSpec: a key is constructed on a constructed curve, signs one       *)
(* message with one nonce, and the signature verifies one message.         *)

EcdsaInit ==
    /\ curve \in AcceptedCurves
    /\ key = None
    /\ sig = None
    /\ origin = None
    /\ call = None
    /\ ret = None

CallKeyPairNew ==
    /\ call = None
    /\ \E k \in 0..(MaxN + 1) :
        /\ call' = [op |-> "KeyPair::new", private |-> k]
        /\ ret' = KeyPair_new(k, curve)
        /\ key' = IF ret'.ok THEN ret'.val ELSE None
    /\ UNCHANGED <<curve, sig, origin>>

CallPrivKeyNew ==
    /\ call = None
    /\ \E k \in 0..(MaxN + 1) :
        /\ call' = [op |-> "PrivKey::new", private |-> k]
        /\ ret' = PrivKey_new(k, curve)
        /\ key' = IF ret'.ok THEN ret'.val ELSE None
    /\ UNCHANGED <<curve, sig, origin>>

\* sign draws its nonce with gen_bigint_range(1, n).
CallSign ==
    /\ key # None
    /\ sig = None
    /\ call.op \in {"KeyPair::new", "PrivKey::new"}
    /\ \E hash \in Hashes, z \in 1..(curve.n - 1) :
        /\ call' = [op |-> "sign", hash |-> hash]
        /\ ret' = sign(key, hash, z)
        /\ sig' = IF ret'.ok THEN ret'.val ELSE None
        /\ origin' = [hash |-> hash, random_nonce |-> z]
    /\ UNCHANGED <<curve, key>>

CallVerify ==
    /\ sig # None
    /\ call.op \in {"sign", "Signature::new"}
    /\ \E hash \in Hashes :
        /\ call' = [op |-> "verify", hash |-> hash]
        /\ ret' = verify(sig, hash)
    /\ UNCHANGED <<curve, key, sig, origin>>

EcdsaNext == CallKeyPairNew \/ CallPrivKeyNew \/ CallSign \/ CallVerify

EcdsaSpec == EcdsaInit /\ [][EcdsaNext]_vars

----------------------------------------------------------------------------
(* SigSpec: a public key is constructed from a point, a Signature is built *)
(* around it from arbitrary r and s, and the signature verifies one        *)
(* message.                                                                *)

CallPubKeyNew ==
    /\ call = None
    /\ \E public \in PointInputs(curve) :
        /\ call' = [op |-> "PubKey::new", public |-> public]
        /\ ret' = PubKey_new(public, curve)
        /\ key' = IF ret'.ok THEN ret'.val ELSE None
    /\ UNCHANGED <<curve, sig, origin>>

CallSignatureNew ==
    /\ key # None
    /\ sig = None
    /\ call.op = "PubKey::new"
    /\ \E r \in 0..(MaxN + 1), s \in 0..(MaxN + 1) :
        /\ call' = [op |-> "Signature::new", r |-> r, s |-> s]
        /\ ret' = Signature_new(r, s, curve, key.public)
        /\ sig' = ret'
    /\ UNCHANGED <<curve, key, origin>>

SigNext == CallPubKeyNew \/ CallSignatureNew \/ CallVerify

SigSpec == EcdsaInit /\ [][SigNext]_vars

----------------------------------------------------------------------------
(* ShaSpec: one call of sha256 on an input, then one call of sha256 on the *)
(* hexadecimal digest it returned (the "hash twice" of the documentation). *)

\* '0', '1', 'a' and 'g': a binary digit pair, a hexadecimal digit that is
\* not binary and a letter that is neither.
ShaAlphabet == {48, 49, 97, 103}

RECURSIVE SeqsUpTo(_, _)
SeqsUpTo(S, n) ==
    IF n = 0 THEN {<<>>}
    ELSE LET shorter == SeqsUpTo(S, n - 1)
         IN shorter \cup {Append(s, x) : s \in shorter, x \in S}

\* "abc".
Abc == <<97, 98, 99>>

\* "hello".
Hello == <<104, 101, 108, 108, 111>>

\* "abcdbcdecdefdefgefghfghighijhijkijkljklmklmnlmnomnopnopq": 448 bits, so
\* that the padding takes a second block.
TwoBlocks == [i \in 1..56 |-> 97 + ((i - 1) \div 4) + ((i - 1) % 4)]

\* "é": one character of two UTF-8 bytes.
EAcute == <<195, 169>>

\* The characters of a sequence of decimal digits.
DigitChars(ds) == SubSeq([i \in 1..Len(ds) |-> 48 + ds[i]], 1, Len(ds))

\* Decimal inputs: "73", "-1", "+5", "-0", "-", "+", "7a", and around the
\* ends of the range of i128: MAX, MAX + 1, MIN, MIN - 1, 10^39, -10^39,
\* MAX with leading zeros, and MAX + 1 followed by a letter.
DecimalInputs ==
    {<<55, 51>>, <<45, 49>>, <<43, 53>>, <<45, 48>>, <<45>>, <<43>>, <<55, 97>>,
     DigitChars(I128MaxDigits),
     DigitChars(I128MinDigits),
     <<45>> \o DigitChars(I128MinDigits),
     <<45>> \o DigitChars([I128MinDigits EXCEPT ![39] = 9]),
     <<49>> \o DigitChars([i \in 1..39 |-> 0]),
     <<45, 49>> \o DigitChars([i \in 1..39 |-> 0]),
     <<48, 48>> \o DigitChars(I128MaxDigits),
     DigitChars(I128MinDigits) \o <<97>>}

ShaInputs ==
    {[message |-> m, input_type |-> t] : m \in SeqsUpTo(ShaAlphabet, MaxTextLen), t \in InputTypes}
    \cup {[message |-> m, input_type |-> "Text"] : m \in {Abc, Hello, TwoBlocks, EAcute}}
    \cup {[message |-> m, input_type |-> "Decimal"] : m \in DecimalInputs}

\* The bytes of a text written in hexadecimal, two digits per byte, in
\* uppercase or lowercase letters.
ByteHex(message, upper) ==
    [i \in 1..(2 * Len(message)) |->
        LET byte == message[(i + 1) \div 2]
            d == IF i % 2 = 1 THEN byte \div 16 ELSE byte % 16
        IN IF upper /\ d >= 10 THEN 55 + d ELSE HexChar(d)]

CallSha256 ==
    /\ call = None
    /\ \E i \in ShaInputs :
        /\ call' = [op |-> "sha256", message |-> i.message, input_type |-> i.input_type,
                    of |-> None]
        /\ ret' = sha256(i.message, i.input_type)
    /\ UNCHANGED <<curve, key, sig, origin>>

\* sha256(hash1.get_hex(), InputType::Hex) on the Hash256 of the first call.
CallSha256OfDigest ==
    /\ call # None
    /\ call.of = None
    /\ ret.ok
    /\ call' = [op |-> "sha256", message |-> ret.val, input_type |-> "Hex",
                of |-> [message |-> call.message, input_type |-> call.input_type]]
    /\ ret' = sha256(ret.val, "Hex")
    /\ UNCHANGED <<curve, key, sig, origin>>

\* sha256 on the bytes of the text of the first call, written as Hex.
CallSha256OfBytes ==
    /\ call # None
    /\ call.of = None
    /\ call.input_type = "Text"
    /\ origin = None
    /\ \E upper \in BOOLEAN :
        /\ call' = [op |-> "sha256", message |-> ByteHex(call.message, upper),
                    input_type |-> "Hex", of |-> None]
        /\ ret' = sha256(ByteHex(call.message, upper), "Hex")
    /\ origin' = [message |-> call.message, input_type |-> call.input_type, hash |-> ret]
    /\ UNCHANGED <<curve, key, sig>>

ShaNext == CallSha256 \/ CallSha256OfDigest \/ CallSha256OfBytes

ShaSpec == Init /\ [][ShaNext]_vars

\* The characters s[i..j] of a hexadecimal digest as a string.
RECURSIVE ShowRange(_, _, _)
ShowRange(s, i, j) ==
    IF i > j THEN ""
    ELSE IF i = j
    THEN (CASE s[i] = 48 -> "0" [] s[i] = 49 -> "1" [] s[i] = 50 -> "2"
            [] s[i] = 51 -> "3" [] s[i] = 52 -> "4" [] s[i] = 53 -> "5"
            [] s[i] = 54 -> "6" [] s[i] = 55 -> "7" [] s[i] = 56 -> "8"
            [] s[i] = 57 -> "9" [] s[i] = 97 -> "a" [] s[i] = 98 -> "b"
            [] s[i] = 99 -> "c" [] s[i] = 100 -> "d" [] s[i] = 101 -> "e"
            [] s[i] = 102 -> "f" [] OTHER -> "?")
    ELSE ShowRange(s, i, (i + j) \div 2) \o ShowRange(s, (i + j) \div 2 + 1, j)

Show(s) == ShowRange(s, 1, Len(s))

----------------------------------------------------------------------------
(* PadSpec: pad on a bit string, then get_message_blocks on the padded     *)
(* string.                                                                 *)

\* The lengths of the bit strings: the short ones, and the ones around the
\* lengths 448, 512 and 448 + 512, where the count of blocks changes.
BitLengths ==
    (0..MaxBitLen) \cup {l + d : l \in {448, 512, 960}, d \in (-MaxBitLen)..MaxBitLen}

\* The bit strings: of all zeros, of all ones, and alternating.
BitInputs ==
    {[i \in 1..l |-> CASE f = "zeros" -> 0 [] f = "ones" -> 1 [] OTHER -> i % 2] :
        l \in BitLengths, f \in {"zeros", "ones", "alternating"}}

CallPad ==
    /\ call = None
    /\ \E message \in BitInputs :
        /\ call' = [op |-> "pad", message |-> message]
        /\ ret' = pad(message)
    /\ UNCHANGED <<curve, key, sig, origin>>

CallGetMessageBlocks ==
    /\ call # None
    /\ call.op = "pad"
    /\ call' = [op |-> "get_message_blocks", message |-> ret]
    /\ ret' = get_message_blocks(ret)
    /\ origin' = [message |-> call.message]
    /\ UNCHANGED <<curve, key, sig>>

PadNext == CallPad \/ CallGetMessageBlocks

PadSpec == Init /\ [][PadNext]_vars

----------------------------------------------------------------------------
(* HashSpec: Hash256::from_hex on a string, then get_hex or get_hex_le on  *)
(* the Hash256 it returned.                                                *)

\* A string of lowercase hexadecimal digits of length l.
HexPattern(l, seed) == [i \in 1..l |-> HexChar((7 * i + 5 * seed) % 16)]

\* 'g', 'A', 'F', ' ', 'f', '0' and a byte of a character that is not ASCII.
OddChars == {103, 65, 70, 32, 102, 48, 200}

\* The strings given to from_hex: the patterns of a length around 64, and
\* the patterns of length 64 with one character replaced.
HexInputs ==
    {HexPattern(l, seed) : l \in {0, 1, 62, 63, 64, 65, 66, 128}, seed \in 0..MaxHexSeed}
    \cup {[HexPattern(64, seed) EXCEPT ![i] = c] :
            seed \in 0..MaxHexSeed, i \in {1, 2, 33, 63, 64}, c \in OddChars}

CallFromHex ==
    /\ call = None
    /\ \E hex \in HexInputs, le \in BOOLEAN :
        /\ call' = [op |-> "from_hex", hex |-> hex, le |-> le]
        /\ ret' = from_hex(hex, le)
    /\ UNCHANGED <<curve, key, sig, origin>>

CallGetHex ==
    /\ call # None
    /\ call.op = "from_hex"
    /\ ret.ok
    /\ call' = [op |-> "get_hex", self |-> ret.val]
    /\ ret' = get_hex(ret.val)
    /\ origin' = [hex |-> call.hex, le |-> call.le]
    /\ UNCHANGED <<curve, key, sig>>

CallGetHexLe ==
    /\ call # None
    /\ call.op = "from_hex"
    /\ ret.ok
    /\ call' = [op |-> "get_hex_le", self |-> ret.val]
    /\ ret' = get_hex_le(ret.val)
    /\ origin' = [hex |-> call.hex, le |-> call.le]
    /\ UNCHANGED <<curve, key, sig>>

HashNext == CallFromHex \/ CallGetHex \/ CallGetHexLe

HashSpec == Init /\ [][HashNext]_vars

----------------------------------------------------------------------------
(* ModSpec: a call of get_mod, or a call of mod_inv that runs its loop one *)
(* pass at a time.  call.pc is "loop" while mod_inv is in its while loop,  *)
(* with the locals a, m, y0 and y in call, and "done" once it returned.    *)

CallGetMod ==
    /\ call = None
    /\ \E x \in (-MaxA)..MaxA, p \in (-MaxM)..MaxM :
        /\ call' = [op |-> "get_mod", x |-> x, p |-> p, pc |-> "done"]
        /\ ret' = get_mod(x, p)
    /\ UNCHANGED <<curve, key, sig, origin>>

\* mod_inv up to its while loop.
CallModInv ==
    /\ call = None
    /\ \E a0 \in (-MaxA)..MaxA, p \in (-MaxM)..MaxM :
        LET a == IF a0 < 0 THEN get_mod(a0, p) ELSE Ok(a0)
        IN IF a0 = 0
           THEN /\ call' = [op |-> "mod_inv", a0 |-> a0, p |-> p, pc |-> "done"]
                /\ ret' = Err("DivisionByZero")
           ELSE IF ~a.ok
           THEN /\ call' = [op |-> "mod_inv", a0 |-> a0, p |-> p, pc |-> "done"]
                /\ ret' = a
           ELSE /\ call' = [op |-> "mod_inv", a0 |-> a0, p |-> p, pc |-> "loop",
                            a |-> a.val, m |-> p, y0 |-> 0, y |-> 1]
                /\ ret' = None
    /\ UNCHANGED <<curve, key, sig, origin>>

\* A faulty pass of the loop: a and m are not updated.
ModInvStepStuck ==
    /\ call.op = "mod_inv"
    /\ call.pc = "loop"
    /\ call.a > 1
    /\ call' = [call EXCEPT !.y = call.y0, !.y0 = call.y]
    /\ UNCHANGED <<curve, key, sig, origin, ret>>

\* One pass of while a > 1.
ModInvStep ==
    /\ call.op = "mod_inv"
    /\ call.pc = "loop"
    /\ call.a > 1
    /\ LET q == RustDiv(call.m, call.a)
       IN call' = [call EXCEPT !.y = call.y0 - q * call.y, !.y0 = call.y,
                               !.a = RustRem(call.m, call.a), !.m = call.a]
    /\ UNCHANGED <<curve, key, sig, origin, ret>>

\* mod_inv after its while loop.
ModInvReturn ==
    /\ call.op = "mod_inv"
    /\ call.pc = "loop"
    /\ ~(call.a > 1)
    /\ LET result == get_mod(call.y, call.p)
       IN ret' = IF ~result.ok THEN result
                 ELSE IF get_mod(result.val * call.a0, call.p).val # 1 THEN Err("NotPrime")
                 ELSE result
    /\ call' = [op |-> "mod_inv", a0 |-> call.a0, p |-> call.p, pc |-> "done"]
    /\ UNCHANGED <<curve, key, sig, origin>>

ModNext == CallGetMod \/ CallModInv \/ ModInvStep \/ ModInvReturn

ModSpec == Init /\ [][ModNext]_vars

\* The thread that called mod_inv keeps running.
ModFairSpec == ModSpec /\ WF_vars(ModNext)

----------------------------------------------------------------------------
(* KeySpec: a key is constructed on a constructed curve, a PrivKey is made *)
(* a KeyPair, and a KeyPair gives its PubKey.                              *)

CallFromPrivate ==
    /\ key # None
    /\ key.type = "PrivKey"
    /\ call.op = "PrivKey::new"
    /\ call' = [op |-> "KeyPair::from_private", private |-> key.private]
    /\ ret' = KeyPair_from_private(key)
    /\ key' = IF ret'.ok THEN ret'.val ELSE key
    /\ UNCHANGED <<curve, sig, origin>>

CallPublic ==
    /\ key # None
    /\ key.type = "KeyPair"
    /\ call.op \in {"KeyPair::new", "KeyPair::from_private"}
    /\ call' = [op |-> "KeyPair::public", of |-> call.op]
    /\ ret' = KeyPair_public(key)
    /\ UNCHANGED <<curve, key, sig, origin>>

KeyNext == CallKeyPairNew \/ CallPrivKeyNew \/ CallFromPrivate \/ CallPublic

KeySpec == EcdsaInit /\ [][KeyNext]_vars

----------------------------------------------------------------------------
(* Known answers: the FIPS 180-4 SHA-256 digest of every text over         *)
(* ShaAlphabet of at most three characters and of the named messages, and  *)
(* the digest of the 32 bytes of that digest, from a reference             *)
(* implementation of the standard.  Abc and TwoBlocks are the one-block    *)
(* and the multi-block example of the standard.                            *)

KnownAnswers ==
    {[message |-> <<>>,
      once |-> "e3b0c44298fc1c149afbf4c8996fb92427ae41e4649b934ca495991b7852b855",
      twice |-> "5df6e0e2761359d30a8275058e299fcc0381534545f55cf43e41983f5d4c9456"],
     [message |-> <<48>>,
      once |-> "5feceb66ffc86f38d952786c6d696c79c2dbc239dd4e91b46729d73a27fb57e9",
      twice |-> "67050eeb5f95abf57449d92629dcf69f80c26247e207ad006a862d1e4e6498ff"],
     [message |-> <<49>>,
      once |-> "6b86b273ff34fce19d6b804eff5a3f5747ada4eaa22f1d49c01e52ddb7875b4b",
      twice |-> "9c2e4d8fe97d881430de4e754b4205b9c27ce96715231cffc4337340cb110280"],
     [message |-> <<97>>,
      once |-> "ca978112ca1bbdcafac231b39a23dc4da786eff8147c4e72b9807785afee48bb",
      twice |-> "bf5d3affb73efd2ec6c36ad3112dd933efed63c4e1cbffcfa88e2759c144f2d8"],
     [message |-> <<103>>,
      once |-> "cd0aa9856147b6c5b4ff2b7dfee5da20aa38253099ef1b4a64aced233c9afe29",
      twice |-> "e2033db8b6ce237e6e26b84bb80c6d3b7a75dd51bcbf0652e24859eaaaad0a31"],
     [message |-> <<48, 48>>,
      once |-> "f1534392279bddbf9d43dde8701cb5be14b82f76ec6607bf8d6ad557f60f304e",
      twice |-> "44d65d52d556c07d03c1d1e4cc86ab2cf034a950e444464ed60be26a5a505fc8"],
     [message |-> <<48, 49>>,
      once |-> "938db8c9f82c8cb58d3f3ef4fd250036a48d26a712753d2fde5abd03a85cabf4",
      twice |-> "bf3ae3deccfdee0ebf03fc924aea3dad4b1068acdd27e98d9e6cc9a140e589d1"],
     [message |-> <<48, 97>>,
      once |-> "6856c5a3a26b5a3f2ead70ca56870769d1fee88f9c457f4360812f2203565824",
      twice |-> "28879ec584e3cd63895a6586417fe5dd452c3243772bd23792b4ab6ef3f6daea"],
     [message |-> <<48, 103>>,
      once |-> "0da6a307c3098dc26e53aebbaf7fb2ddb2cb152e99efa18c16d2a4f2e267c354",
      twice |-> "78a708ccee9972d5f29afd150a65fc2b1d8884526aff0b4e66995f6c6150c71a"],
     [message |-> <<49, 48>>,
      once |-> "4a44dc15364204a80fe80e9039455cc1608281820fe2b24f1e5233ade6af1dd5",
      twice |-> "fcfc282496b4d1c0f46d166d828dd9ea3c5ce2e1245af10baa97f121ea5433b2"],
     [message |-> <<49, 49>>,
      once |-> "4fc82b26aecb47d2868c4efbe3581732a3e7cbcc6c2efb32062c08170a05eeb8",
      twice |-> "3073058ba04e7d35a161af27f07ddb24d603d2a6418b4140010b7cdb24ff4774"],
     [message |-> <<49, 97>>,
      once |-> "a73fcf339640929207281fb8e038884806e2eb0840f2245694dbba1d5cc89e65",
      twice |-> "0a238e1011c130f89921b3973f6e6ce0d37a0f5530151e55c13369e7d0c1aa69"],
     [message |-> <<49, 103>>,
      once |-> "6068f86ff5e6d3a3e100e95fd0ab03a5fb9ebfca9386b2c0ee131361a62526c2",
      twice |-> "5fb626352b805f04499459b32312a3a4b6b6713dd5fb448fb5de7c230d37e81b"],
     [message |-> <<97, 48>>,
      once |-> "4e1195df020de59e0d65a33a4279f1183e7ae4e5d980e309f8b55adff2e61c3e",
      twice |-> "c5a1a573d87aa33689348f70e632535353c266ceb19a06ae97fd0c99b54aea05"],
     [message |-> <<97, 49>>,
      once |-> "f55ff16f66f43360266b95db6f8fec01d76031054306ae4a4b380598f6cfd114",
      twice |-> "acd3e07eff34431a904a2b147ef7432346153ce755938b5e62f2f7cc5f789dac"],
     [message |-> <<97, 97>>,
      once |-> "961b6dd3ede3cb8ecbaacbd68de040cd78eb2ed5889130cceb4c49268ea4d506",
      twice |-> "994ea33d94058425c90ddc4efe6776ac692e91361e388c98134f0d0fc2a012d8"],
     [message |-> <<97, 103>>,
      once |-> "9aaf680776b98fd17fe63376120525cbcdffc01bc66f71df96b6e90b87f39b86",
      twice |-> "beda254f6dfeb7f1b0adc3cdf165d54de0ac4d6c6094d78ec8db2540fb0ed6ca"],
     [message |-> <<103, 48>>,
      once |-> "f21b0ef89d8ee5daf6ba6cd441652a647229941e85b1537b5c35ede6b4d519a8",
      twice |-> "0effa685b2f08e3d315f98ba0f76e53cc90d3e1409b0de0d0769f113cfa9816d"],
     [message |-> <<103, 49>>,
      once |-> "711430f6164e93803d93428bc1fab80f41e213bb197689307de8606d437c3038",
      twice |-> "f3fa078151b4619c3d06f8a7732b5939c0c1f472d4e56169b830c0a819f24968"],
     [message |-> <<103, 97>>,
      once |-> "f52d63231eb0dbaac689ec9147e4b131fc95ef92d5bc78135b22934b36d76bf4",
      twice |-> "ed307da75d5a5323688215d8d6fd061011c6125d9cae74f0d03f2c841e83dfdb"],
     [message |-> <<103, 103>>,
      once |-> "cbd3cfb9b9f51bbbfbf08759e243f5b3519cbf6ecc219ee95fe7c667e32c0a8d",
      twice |-> "e942877c7704fda06033716da706a68e1e680575db753997bd18ddd499ab8916"],
     [message |-> <<48, 48, 48>>,
      once |-> "2ac9a6746aca543af8dff39894cfe8173afba21eb01c6fae33d52947222855ef",
      twice |-> "22e5a8e24e7bbbb4a2aee759721fe4319843c2f85be4017f2d89db038b4bffb2"],
     [message |-> <<48, 48, 49>>,
      once |-> "7a3e6b16cb75f48fb897eff3ae732f3154f6d203b53f33660f01b4c3b6bc2df9",
      twice |-> "798f73b6b1444c94b78952868d1a5d41ebc9b5afb8f28a6999e3fc25dabb3c87"],
     [message |-> <<48, 48, 97>>,
      once |-> "98d12a6d10e4c0da59f097cda38e6b1a71cd381eacbad9411ffdbd570c5d6aa9",
      twice |-> "2b4a80005fab66c1d62884914df5f546d3996c18fcdfee7a5df468af2236912e"],
     [message |-> <<48, 48, 103>>,
      once |-> "74dc0d29bba6edf3a529401e1bd93080f052d8eb2c4acbeb704bc78c26c6420d",
      twice |-> "fb40ba993ef9234379a9fa21e4ba90594b371ac1a3f5e7fa4df652a1048ff158"],
     [message |-> <<48, 49, 48>>,
      once |-> "13715f6c8b48ed1b00f509ca29bc826bd04fd6f1ce8d8ebe27fb286312ce3ba1",
      twice |-> "b0bd43d693c58478852e55c328e7badf807746131b7db41fefe4cee76272cb0f"],
     [message |-> <<48, 49, 49>>,
      once |-> "8a080cea809d1b9d33b541f3498b1b6366ffc66df75423108947085057cf2f99",
      twice |-> "d9ec9286cbc21a0fa28d386136343740cb76bbd1ee683d9a064521bc78d364ba"],
     [message |-> <<48, 49, 97>>,
      once |-> "8b1bf74ad28fc10cce5cc14966f38e4ffd0a493385c9855ce4d5677b7157a6fb",
      twice |-> "0cd9148fefcfd52a59b17ae6a2473dd1bafc75dde256a8391dbe65cbd5924f60"],
     [message |-> <<48, 49, 103>>,
      once |-> "98cd213aa3249f096e19e69580d34805dd4e73df9491e2027b8727623a8c0f81",
      twice |-> "07075c3bff00f3bd68628327a27fd3f1c8a85ce8b9abbf2d16e48ae145c82c09"],
     [message |-> <<48, 97, 48>>,
      once |-> "4d4655909a4b9fc60c094117f1b13ef778f6d89fd9e8209c1e687e1919bf5be9",
      twice |-> "7547e481acefb5a93ff3466958d3787c59331caab6cd03dbfe9b2cb4d9cdc902"],
     [message |-> <<48, 97, 49>>,
      once |-> "1ec883afc079d0d4296c61c31d464d7db601e5f0c32c0fb1c46722448e8290b8",
      twice |-> "6eab20e55095bf5e04b9dd4b6480094c3cfd3270fd47ebc6e2b247c41fdec895"],
     [message |-> <<48, 97, 97>>,
      once |-> "b881869a6fcb45ea9287899e0d201593489c31fa7661a033f715a9f8fb39f7de",
      twice |-> "20dcdb05a5c27b1af776736287c7e35b96b93a9a11a46b5ef03ba50f7ed24353"],
     [message |-> <<48, 97, 103>>,
      once |-> "ab0bd6907e0af44a91fe4b46115177698ae5ef2f5cad7fbc8e0cdc1829af69c2",
      twice |-> "ce84fdeb1fd999b01de6568ba57939c6d6cfcbbc162220bb0ad6ce4af0b04131"],
     [message |-> <<48, 103, 48>>,
      once |-> "d7661a85dde2589f63460c438bf592534bf32f3e587a5a3deff9a1b03c2b8c4d",
      twice |-> "05b182725e66e5f6ef6ce98fb8dc81fb513e3006cbe8af8d6be400d127226525"],
     [message |-> <<48, 103, 49>>,
      once |-> "26accf39e20bea944e6ecf7888aab97a69ea1c32c7fb14be46da5d4ce6463744",
      twice |-> "1a2a555c6edad86c1c83a8c740098ed6c1116042cd8b3feaa0ee804e530c4641"],
     [message |-> <<48, 103, 97>>,
      once |-> "171d74f762ff6e51ac03993b265f3b3c965dfb8b7d92e2328d5348fa3042e396",
      twice |-> "50a72917fe27dbcdc8d908a166edb7416783bb9d4d08c55df6b453b73037909a"],
     [message |-> <<48, 103, 103>>,
      once |-> "ec17c2ca75fcec0c46d2d5aeaa914fcedeacc7559165cea56e7824e0e636f83c",
      twice |-> "95bf6ec601b85ed0678bcc2d0b4322ac492ced2c782ebf3da65e60c12d7adba9"],
     [message |-> <<49, 48, 48>>,
      once |-> "ad57366865126e55649ecb23ae1d48887544976efea46a48eb5d85a6eeb4d306",
      twice |-> "f7f58654ac15c47e3fb5b320192c9e658af53dc001f915d4d0383ffea4fa50a3"],
     [message |-> <<49, 48, 49>>,
      once |-> "16dc368a89b428b2485484313ba67a3912ca03f2b2b42429174a4f8b3dc84e44",
      twice |-> "faf756cdbaa6e0f5117e60031090003446c1c01c0f6c64f69d6c1a2d15399c27"],
     [message |-> <<49, 48, 97>>,
      once |-> "f960354918f8e24aedcef3fe373a4169c7dbd3776ca831ee365d91639a70ef8d",
      twice |-> "91048c8a3ea1f2112ce500f18ed79302241f8237105ef1d0cb049a43639f6148"],
     [message |-> <<49, 48, 103>>,
      once |-> "0e13e1de62862a75851a98495f3c840a2cd5d5a45f5692463fcba4e44049a8fe",
      twice |-> "7bfdf2e80cfb35fb91d62da6e2b976c8af3eee3cc01ba4826cbce5fe65060ba5"],
     [message |-> <<49, 49, 48>>,
      once |-> "9bdb2af6799204a299c603994b8e400e4b1fd625efdb74066cc869fee42c9df3",
      twice |-> "bfebe8d8fed9412637a6c7c8aa6619358db0402dbd3410d2ec9f34df34a45f6b"],
     [message |-> <<49, 49, 49>>,
      once |-> "f6e0a1e2ac41945a9aa7ff8a8aaa0cebc12a3bcc981a929ad5cf810a090e11ae",
      twice |-> "d3fee35d2d68888fca04e8ce85b9bc40220936b54e749d3ae81a0a7c25b896e1"],
     [message |-> <<49, 49, 97>>,
      once |-> "ae3102a8beda3407583448e17eb5345b1c27fe083bdfe12d6b6bada7e7c19599",
      twice |-> "d896adcea4081307de965a786d9b8bd2273863ce105c92b6fbcb1492a491744c"],
     [message |-> <<49, 49, 103>>,
      once |-> "75dff864af41f32e20128c05a69923a4e813c692f6244995c04442e39e7e6ad1",
      twice |-> "a533ade66ae8885bce23a5f917fc55b717f63d83c173a8ab63e29c713194ab0a"],
     [message |-> <<49, 97, 48>>,
      once |-> "df2d094f86cca333b9c4a19fe8151872b88a07f00ca77c4e7a5df103ace5de76",
      twice |-> "2fa9da7efe72b245923c55530933eba654d31acc47a9e9b2f6fc5fd7d858cbf1"],
     [message |-> <<49, 97, 49>>,
      once |-> "42992a067359e6ccbbd23c132ba1fe68d372008e30d547c7b99abeb76023a25b",
      twice |-> "5d03c68a48f5e3cee4c3f211bb6d574c96c7814677785ed3d35e0ce62d922021"],
     [message |-> <<49, 97, 97>>,
      once |-> "9ddaa151f0782c00330233b458256ffef17c7809da1e2fc655ce2c6803846069",
      twice |-> "e430b05314d5bb2a33f4f4aca38057814f4ef96f0b93e30ec7a600c9ea2f5308"],
     [message |-> <<49, 97, 103>>,
      once |-> "a41e18b059b2c93059cc52cb4d40fbff3bd3c93e8cb1ec84e6a67aab42a3680e",
      twice |-> "2218730c4a7b4ea958b6606fc3cc6f43341019349136dc940db45b94a100e542"],
     [message |-> <<49, 103, 48>>,
      once |-> "8c2156a8f7a5977f909e0cd78be53541a0ff9d31815c5f70e51d7514c65429f2",
      twice |-> "d23082d386cf9935ef66b9e9a4839fd677269757a2701cb599bb75e08a4e0af3"],
     [message |-> <<49, 103, 49>>,
      once |-> "ed45856df2528678d4e350403dac04b990778ea00bf59436b7631d2d103ded21",
      twice |-> "49b4f3a94624fb6be10f2b88625eba89f20ac9a4b4fbd085e9ee676b63119566"],
     [message |-> <<49, 103, 97>>,
      once |-> "bb6439f28dd7a3ad7e458d418dbe95f935be0cdca56d4bbef978affaed204257",
      twice |-> "5584817ef40f8ed34b830149d0c447766e7cefbfaf241ca610ad4ec0b9316892"],
     [message |-> <<49, 103, 103>>,
      once |-> "875fcc53df578df1f1abfbfdf18800219a4bdd9c1bd80ff4f0fbff754a73c5ff",
      twice |-> "920204ef85508f5053862754e6cf4e8e4bbfd7a6712d7ae00bdff6ca92325c50"],
     [message |-> <<97, 48, 48>>,
      once |-> "27a179a88f7d9b6f887c0e99218e3cf91e6788616f993ba923c3d82a75553786",
      twice |-> "026fc1bbcf741f0b7ae1431041a33f0c496cdb9c33732def6be679883729e377"],
     [message |-> <<97, 48, 49>>,
      once |-> "f1a8d12f9541cb620869b8fb403559132ded003d229eed08c9dc7f0ba62bb79c",
      twice |-> "dcc1fa29f1bdc141ed445b6c117e57924748a8d96a3b1d857b8bcd51ad39f580"],
     [message |-> <<97, 48, 97>>,
      once |-> "873467642674d52b853341382dfb16570f4c3fb2f10641fcf0660fa6524aa591",
      twice |-> "d72e9ce9c8952ced9cbb3f063157f955adb6298927b9a526d3731e6698943c87"],
     [message |-> <<97, 48, 103>>,
      once |-> "425c2b686c0bfa1781bd45b07d60fbf43bf446695447cb05303b84eca930236f",
      twice |-> "e5df87a3757a5bdde735577a85d8fc54fc2cb2d165c14b2dddffdd6db67be9e6"],
     [message |-> <<97, 49, 48>>,
      once |-> "e80fb65ac70384bd8bab0358d60b7cbe96de5b2de7c095e0d8695852e9c673af",
      twice |-> "9d21335394d524e400c815368957a239eba68adbcaa3d4a2dac4ae32055b3312"],
     [message |-> <<97, 49, 49>>,
      once |-> "ea1ff066194e9ce5fbc1533b244022f9ab53ef1cf2f4486f35f949fbbc1be3c6",
      twice |-> "48cda8fd8597a4be75b0e66ff822ef3bb2add2e9b05c0dfdfae98aa78041a75d"],
     [message |-> <<97, 49, 97>>,
      once |-> "e227ac4dd69961989b957f838a757c3c53b340815b745edfbe486c480b7df7be",
      twice |-> "b862c23bc024a8222e8c69f09d1f5c37b1a8a56e1b8f501d720383badf229fa7"],
     [message |-> <<97, 49, 103>>,
      once |-> "e7601a80a7b13da8623973ab943796bb06b90de9320ddda6eb010baeaa1b2bb0",
      twice |-> "34bac05cdc1e8dbafdc4203aabf40e20452ea810aa029d4945bb561f82026eb2"],
     [message |-> <<97, 97, 48>>,
      once |-> "9d355a3a8f267dee81cab05d2eb3111ca37d6f0c96f550b8803ac22a5a10a473",
      twice |-> "cbd57ccb180e6e5670ea69ba679d0ba111b0eb5b44e8c74e99ab2fe9fb5b8800"],
     [message |-> <<97, 97, 49>>,
      once |-> "85478e978a441311de4d07f0b93b9ca1761fb5bfc4f7697d6a90bb529fbaa48d",
      twice |-> "9106495b47c073853c4418582d749b036324a8f31998e2c95866330d049570c4"],
     [message |-> <<97, 97, 97>>,
      once |-> "9834876dcfb05cb167a5c24953eba58c4ac89b1adf57f28f2f9d09af107ee8f0",
      twice |-> "2da088f23b65eac349084e13bec32e82804801b5c4c3b6baedb8811ea517334d"],
     [message |-> <<97, 97, 103>>,
      once |-> "cdc93f57b82c7d1cec5f75b426889c9d3c5212a0ec9ca03a8f3f6890f81077a5",
      twice |-> "f639667b7efc79706c2f98ae3609f6c4810d0b0d100ef9bfb1dfd28845b0aeba"],
     [message |-> <<97, 103, 48>>,
      once |-> "20c8c8e370b078bfaf27bba2bcc7443a8ebee325d0d038ae4e3483db2471c815",
      twice |-> "7ae68843e49375db3653f1d0492b00137bd201d5610541c99d5dac7a02bcfdc5"],
     [message |-> <<97, 103, 49>>,
      once |-> "801013174f32ac0c7e7769f3c9b560765fc38bd246f15f01edee9d80f94ebf47",
      twice |-> "07f162af3a14278f152216784d51d7e5c100f20a182c33555471859aa4f6ff52"],
     [message |-> <<97, 103, 97>>,
      once |-> "0c07ca714351f6303968b55ace7d2b4cd0c2a16e67d4db5df133e988c63f0674",
      twice |-> "d7f5fd726c1b0548f32255469265e721f0f89a35b4e13df132f1d4aa31595483"],
     [message |-> <<97, 103, 103>>,
      once |-> "548e750b9cadc2a9336fcb9bcb3362d1b951a8d7310081aa200d277e196c4f0b",
      twice |-> "e61ac6c2341db297822c9e1733ae6d2459e35ebcbd956f6a8ed32d24c154a7bc"],
     [message |-> <<103, 48, 48>>,
      once |-> "25f5d689a8857cf6f788a31c96bb412ed9ffbbf0fd5f87819ba9645250b53248",
      twice |-> "1509933455c5c4de3f63ef548b78e0863106dcd4d3cc45bd8b95ae5b9144cef2"],
     [message |-> <<103, 48, 49>>,
      once |-> "14dd221c42de0a740ecf4508849b4fae6cc689898c65bf676aa12184b9de7516",
      twice |-> "2070cfb9c0eaa4532ee35a32cea27c2b2bb1c59d774d0540953537ef72db5014"],
     [message |-> <<103, 48, 97>>,
      once |-> "4757fad73d944a2dc212b2f8568c0c3ac3f8820d39488b2711aaa59b4e1737b1",
      twice |-> "53f3c356bdac8877e9dccf96e7caecbcbdf800f507d04aca4680c8f7d1aeac3e"],
     [message |-> <<103, 48, 103>>,
      once |-> "5db50529f888c35d05a9318c7c01fdc07468bdea39ed89510c13de2df02a6d05",
      twice |-> "a4decd33dabfc76f92b1c58347789027347a83e082079149eeb1a105776193a7"],
     [message |-> <<103, 49, 48>>,
      once |-> "d8ac81dbad9116c9bfb8c1bbe9e0998522beb422830ccce5dfcedd3b3b7a41c3",
      twice |-> "ca75ef511e367f193ffb916f4d3d2122abc6060dee269593ab6798fc2a45fd5d"],
     [message |-> <<103, 49, 49>>,
      once |-> "1d5b1d0bc460ae40dd3383c602b3dac7aab32e1fdf43f95af11596f5ccca4b4e",
      twice |-> "258b1e402c4b5d282a6e0e81345ae0719b59142b16b81b0119d296aa04ca1ca8"],
     [message |-> <<103, 49, 97>>,
      once |-> "c957e4609646fe01c9e330b846896419ee7b634084861c548db8aa4f80514196",
      twice |-> "1a6001f6f5ee67ec22ccd121e064340a81a9e4c9b2d13606deb71dd46b18e44a"],
     [message |-> <<103, 49, 103>>,
      once |-> "f6fa898d753110422e646cbd94422dc62f2f18c255fea068958092e49024e743",
      twice |-> "cf4b0132ef809d8f2093c9da48902b55a0cbc69ece2d863715323545a5af6029"],
     [message |-> <<103, 97, 48>>,
      once |-> "5b85db0068383aa4c5883b461dd9893acd8a17b70a898d107c3d0f22b4ee28ff",
      twice |-> "582a2f4e96a9b409a90ac29d561c0f24174e4daba899578bca87863ba03b6d88"],
     [message |-> <<103, 97, 49>>,
      once |-> "90b514f641600405779af280b3d13bcac715c02de993c91e57ed8d60ddac517a",
      twice |-> "4e5bc1f12cbc7768c00d2b08f3b0489e8d273503a82f198b9d42aa389db90e60"],
     [message |-> <<103, 97, 97>>,
      once |-> "6a20b12fb04b136c7c9e1b484ea524fc2940a2d7c0952703bb4a1460ee6b6662",
      twice |-> "ac605539bb0d332bdf8584416df1b6d70fd80556dcf257d1f8cc948e420d9c47"],
     [message |-> <<103, 97, 103>>,
      once |-> "8dd5532dd47b855153be44ecac960e3b275d8ffc5cf3ff69ef559d5d283d9521",
      twice |-> "459fdc30eecee9f62723f0322e290627cb75dd48db9e7bce998a8a96cf8e71fe"],
     [message |-> <<103, 103, 48>>,
      once |-> "581e01bd256aa82a96349c2a5a79d5ff866e9d7ade4bf117b00580d25f5d4891",
      twice |-> "478302e959c090383ec7071bfd4b9f49a432b470520f1ae9035a79cac9318b46"],
     [message |-> <<103, 103, 49>>,
      once |-> "f4de1d5d61cda19316dbbec414bc059aedef9a51390625efdec9429029e74f06",
      twice |-> "0bdee069534fdb36b0c63093b2b7d8d42d88fb93b9b9e5e6798e68b5d3d70e50"],
     [message |-> <<103, 103, 97>>,
      once |-> "19ae6d1f52ed349b755a5f6c151626cc9bfb65e558fe7e3e656f615b20510835",
      twice |-> "55924333d6ad45b0b21ff64d445f000b1e2913b41a5dcb4c11eaef430de15ac8"],
     [message |-> <<103, 103, 103>>,
      once |-> "569c7f0b41ce9649602a0218cd02ed0b0a3d93130329451cc782b7dfda79ce71",
      twice |-> "f670e57eb4d3fc9ea1642f06eabeac637cd350cbd3be5aeb28b24493e010e42d"],
     [message |-> <<97, 98, 99>>,
      once |-> "ba7816bf8f01cfea414140de5dae2223b00361a396177a9cb410ff61f20015ad",
      twice |-> "4f8b42c22dd3729b519ba6f68d2da7cc5b2d606d05daed5ad5128cc03e6c6358"],
     [message |-> <<104, 101, 108, 108, 111>>,
      once |-> "2cf24dba5fb0a30e26e83b2ac5b9e29e1b161e5c1fa7425e73043362938b9824",
      twice |-> "9595c9df90075148eb06860365df33584b75bff782a510c6cd4883a419833d50"],
     [message |-> TwoBlocks,
      once |-> "248d6a61d20638b8e5c026930c3e6039a33ce45964ff2167f6ecedd419db06c1",
      twice |-> "0cffe17f68954dac3a84fb1458bd5ec99209449749b2b308b7cb55812f9563af"]}

----------------------------------------------------------------------------
(* Properties of the ECDSA protocol (EcdsaSpec).                           *)

\* n is a prime number.
Prime(n) == n > 1 /\ \A j \in 2..(n - 1) : n % j # 0

\* The state after verify on a Signature that sign returned for a digest,
\* called with a digest.
Verified ==
    /\ call.op = "verify"
    /\ call.hash.ok
    /\ origin # None
    /\ origin.hash.ok

\* C1: sign/verify round trip.  On every accepted curve, for every private
\* key k with 0 < k < n, every digest e and every nonce z in [1, n), when
\* sign returns a Signature, verify on it with the same message returns true.
C1_RoundTrip ==
    (Verified /\ call.hash = origin.hash) => ret = Ok(TRUE)

SameClass(e1, e, k, r, n) ==
    \/ (e1 - e) % n = 0
    \/ (e1 + e + 2 * k * r) % n = 0

\* The coordinates of the finite point P are reduced modulo p.
Reduced(P, p) == P.x < p /\ P.y < p

C9_KeyConstruction ==
    call.op \in {"KeyPair::new", "PrivKey::new"} =>
        IF call.private = 0 \/ call.private >= curve.n
        THEN ret = Err("InvalidPrivateKey") /\ key = None
        ELSE IF call.op = "PrivKey::new"
        THEN ret.ok /\ ret.val.private = call.private /\ ret.val.curve = curve
        ELSE LET public == multiply(curve, curve.g, call.private)
             IN /\ public.ok => /\ ret.ok
                                /\ ret.val.private = call.private
                                /\ ret.val.public = public.val
                                /\ ret.val.curve = curve
                /\ ~public.ok => ret = public
                /\ call.private = 1 => ret.ok /\ ret.val.public = curve.g

\* C9, reached: KeyPair::new returned a pair for a scalar k with 1 < k < n
\* whose public point is a finite point other than G.
C9_Witness ==
    /\ call.op = "KeyPair::new"
    /\ call.private > 1
    /\ ret.ok
    /\ ret.val.private = call.private
    /\ ~ret.val.public.inf
    /\ ret.val.public # curve.g
    /\ key = ret.val

----------------------------------------------------------------------------
(* Properties of Curve::new (Spec).                                        *)

\* The argument tuple of the last call of Curve::new as a curve.
Given == Curve(call.a, call.b, call.p, call.n, call.g)

\* 4a^3 + 27b^2 modulo p > 0 as a mathematical integer, from the residues
\* of a and b.
DiscriminantMod(a, b, p) == (4 * (a % p) * (a % p) * (a % p) + 27 * (b % p) * (b % p)) % p

\* The five construction invariants of a parameter tuple over a modulus
\* p > 0.
ConstructionInvariants(c) ==
    /\ c.g # PointAtInfinity
    /\ c.p > 0
    /\ DiscriminantMod(c.a, c.b, c.p) # 0
    /\ c.n # 0
    /\ multiply(c, c.g, c.n) = Ok(PointAtInfinity)
    /\ is_on_curve(c, c.g)

\* C3: every Curve that Curve::new returns as Ok satisfies the five
\* construction invariants: G is not the point at infinity, 4a^3 + 27b^2 is
\* not congruent to 0 modulo p, n is not 0, multiply(G, n) is the point at
\* infinity and G is on the curve; when one of them is violated, Curve::new
\* returns an error and no Curve.
C3_ConstructionInvariants ==
    call.op = "Curve::new" =>
        /\ ret.ok => ConstructionInvariants(ret.val) /\ ret.val = Given
        /\ ~ConstructionInvariants(Given) => ~ret.ok /\ ~ret.panic /\ curve = None

\* C6: Curve::new with a finite generator G that does not satisfy the curve
\* equation, on a non-singular curve with n # 0 (and coefficients whose
\* discriminant fits an i32), fails with GeneratorNotOnCurve.
C6_GeneratorNotOnCurve ==
    (/\ call.op = "Curve::new"
     /\ call.g # PointAtInfinity
     /\ call.p > 0
     /\ ~Discriminant(call.a, call.b).ovf
     /\ DiscriminantMod(call.a, call.b, call.p) # 0
     /\ call.n # 0
     /\ ~is_on_curve(Given, call.g))
    => ret = Err("GeneratorNotOnCurve")

----------------------------------------------------------------------------
(* Properties of the point operations (PointSpec).                         *)

\* C4: closure of scalar multiplication.  For every point P on the curve
\* and every integer k (negative, zero, positive, beyond the order), when
\* multiply(P, k) returns Ok(R), R is on the curve.
C4_MultiplyClosed ==
    (call.op = "multiply" /\ is_on_curve(curve, call.p) /\ ret.ok)
    => is_on_curve(curve, ret.val)

\* C4, reached: multiply returned a finite point for an on-curve finite P
\* and a negative k other than -1.
C4_Witness ==
    /\ call.op = "multiply"
    /\ ~call.p.inf
    /\ is_on_curve(curve, call.p)
    /\ call.k < -1
    /\ ret.ok
    /\ ~ret.val.inf
    /\ ret.val # call.p

\* C5: add, double and multiply never return a point off the curve, for any
\* input points (on or off the curve) and any scalar: each returns an error
\* or a point that satisfies is_on_curve.
C5_NeverOffCurve ==
    (call.op \in {"add", "double", "multiply"} /\ ret.ok) => is_on_curve(curve, ret.val)

\* C7: point addition is commutative.  For all on-curve points P and Q
\* (finite or infinity, equal or distinct), add(P, Q) and add(Q, P) have
\* the same outcome: the same point, or both fail.
C7_AddCommutes ==
    (call.op = "add" /\ is_on_curve(curve, call.p) /\ is_on_curve(curve, call.q))
    => /\ ret.ok = Curve_add(curve, call.q, call.p).ok
       /\ ret.ok => ret = Curve_add(curve, call.q, call.p)

\* C7, reached: add returned a finite point by the chord formula for two
\* on-curve points of different x.
C7_Witness ==
    /\ call.op = "add"
    /\ ~call.p.inf
    /\ ~call.q.inf
    /\ call.p.x # call.q.x
    /\ is_on_curve(curve, call.p)
    /\ is_on_curve(curve, call.q)
    /\ ret.ok
    /\ ~ret.val.inf

\* C8: inverse law.  For every on-curve point P, add(P, point_neg(P))
\* returns the point at infinity, also when y = 0, where point_neg(P) = P
\* and add delegates to double.
C8_InverseLaw ==
    (/\ call.op = "add"
     /\ is_on_curve(curve, call.p)
     /\ call.q = point_neg(call.p, curve.p).val)
    => ret = Ok(PointAtInfinity)

----------------------------------------------------------------------------
(* Properties of sha256 (ShaSpec).                                         *)

\* The known answer for a message.
Known(m) == CHOOSE r \in KnownAnswers : r.message = m

HasKnown(m) == \E r \in KnownAnswers : r.message = m

\* C10: sha256 returns the FIPS 180-4 digest of the decoded bits, for the
\* empty, the one-block and the two-block inputs: the digest of every text
\* with a known answer, among them "abc" (ba7816bf...) and "hello"
\* (2cf24dba...), and, for the digest rehashed as Hex, the digest of its 32
\* bytes, 4f8b42c2... for "abc".
C10_KnownAnswers ==
    /\ (call.op = "sha256" /\ call.input_type = "Text" /\ HasKnown(call.message))
       => ret.ok /\ Show(ret.val) = Known(call.message).once
    /\ (call.op = "sha256" /\ call.of # None /\ call.of.input_type = "Text"
            /\ HasKnown(call.of.message))
       => ret.ok /\ Show(ret.val) = Known(call.of.message).twice
    /\ Known(<<>>).once = "e3b0c44298fc1c149afbf4c8996fb92427ae41e4649b934ca495991b7852b855"
    /\ Known(Abc).once = "ba7816bf8f01cfea414140de5dae2223b00361a396177a9cb410ff61f20015ad"
    /\ Known(Abc).twice = "4f8b42c22dd3729b519ba6f68d2da7cc5b2d606d05daed5ad5128cc03e6c6358"
    /\ Known(Hello).once = "2cf24dba5fb0a30e26e83b2ac5b9e29e1b161e5c1fa7425e73043362938b9824"
    /\ Known(TwoBlocks).once = "248d6a61d20638b8e5c026930c3e6039a33ce45964ff2167f6ecedd419db06c1"

\* C10, reached: the digest of "abc" was hashed again as Hex and gave
\* 4f8b42c2...
C10_Witness ==
    /\ call.op = "sha256"
    /\ call.input_type = "Hex"
    /\ call.of = [message |-> Abc, input_type |-> "Text"]
    /\ Show(call.message) = "ba7816bf8f01cfea414140de5dae2223b00361a396177a9cb410ff61f20015ad"
    /\ ret.ok
    /\ Show(ret.val) = "4f8b42c22dd3729b519ba6f68d2da7cc5b2d606d05daed5ad5128cc03e6c6358"

\* C11: hashing a message as Text gives the same digest as hashing the
\* hexadecimal rendering of its UTF-8 bytes (two digits per byte) as Hex, and
\* the two decodings are the same bit string.
C11_TextEqualsByteHex ==
    (call.op = "sha256" /\ call.of = None /\ origin # None)
    => /\ ret = origin.hash
       /\ DecodeInput(call.message, call.input_type)
              = DecodeInput(origin.message, origin.input_type)

\* C11, reached: a text with a byte above 127 was hashed again through its
\* uppercase hexadecimal rendering and gave a digest.
C11_Witness ==
    /\ call.op = "sha256"
    /\ call.of = None
    /\ origin # None
    /\ origin.message = EAcute
    /\ call.input_type = "Hex"
    /\ call.message = <<67, 51, 65, 57>>
    /\ ret.ok
    /\ ret = origin.hash

----------------------------------------------------------------------------
(* Properties of pad and get_message_blocks (PadSpec).                     *)

\* The count of 0 bits that brings a string of L bits and one 1 bit to a
\* length congruent to 448 modulo 512.
ZerosFor(L) == (447 - L) % 512

\* out is message, one 1 bit, ZerosFor(L) 0 bits, and L in 64 bits, most
\* significant bit first.
Padded(message, out) ==
    LET L == Len(message)
        k == ZerosFor(L)
    IN /\ Len(out) = L + 1 + k + 64
       /\ Len(out) % 512 = 0
       /\ SubSeq(out, 1, L) = message
       /\ out[L + 1] = 1
       /\ \A i \in (L + 2)..(L + 1 + k) : out[i] = 0
       /\ \A i \in (L + 2 + k)..(L + 1 + k + 34) : out[i] = 0
       /\ FromBits(out, L + 1 + k + 35, L + 1 + k + 64) = L
       /\ (L % 512 = 448 => Len(out) = L + 64 + 512)

\* C12: pad gives the message, one 1 bit, the least count of 0 bits that
\* makes the length congruent to 448 modulo 512 and the 64-bit big-endian
\* length; the padded length is a multiple of 512, with a full extra block
\* when L is congruent to 448; get_message_blocks gives the padded string
\* cut into its padded_length / 512 blocks, in order.
C12_Padding ==
    /\ (call.op = "pad") => Padded(call.message, ret)
    /\ (call.op = "get_message_blocks")
       => /\ Padded(origin.message, call.message)
          /\ Len(ret) = Len(call.message) \div 512
          /\ \A i \in 1..Len(ret) : Len(ret[i]) = 512
          /\ Concat(ret) = call.message

\* C12, reached: a string of 448 + 512 bits was padded with a full extra
\* block and cut into three blocks.
C12_Witness ==
    /\ call.op = "get_message_blocks"
    /\ Len(origin.message) = 960
    /\ Len(call.message) = 1536
    /\ Len(ret) = 3
    /\ ret[2][449] = 1
    /\ ret[3] = [i \in 1..512 |-> IF i \in {503, 504, 505, 506} THEN 1 ELSE 0]

----------------------------------------------------------------------------
(* Properties of Hash256 (HashSpec).                                       *)

\* c is a hexadecimal digit: a character that has a value in radix 16, as
\* the Hex input of sha256 reads it.
IsHexDigit(c) == DigitOf(c, 16) >= 0

ByteReversed(h) ==
    [i \in 1..Len(h) |-> IF i % 2 = 1 THEN h[Len(h) - i] ELSE h[Len(h) - i + 2]]

\* C14: byte-order round trip of a digest.  For every string h that
\* from_hex accepts: from_hex(h, false).get_hex() = h,
\* from_hex(h, true).get_hex_le() = h, from_hex(h, true) is
\* from_hex(byte-reversed h, false), and the byte reversal of get_hex_le
\* applied twice gives get_hex.
C14_ByteOrderRoundTrip ==
    /\ (call.op = "from_hex" /\ ret.ok /\ call.le)
       => ret = from_hex(ByteReversed(call.hex), FALSE)
    /\ (call.op = "get_hex" /\ ~origin.le) => ret = origin.hex
    /\ (call.op = "get_hex_le" /\ origin.le) => ret = origin.hex
    /\ (call.op = "get_hex_le")
       => ByteReversed(ret) = get_hex(call.self) /\ get_hex_le(ret) = get_hex(call.self)

\* C14, reached: a string read as little endian came back from get_hex_le,
\* and its Hash256 holds another string.
C14_Witness ==
    /\ call.op = "get_hex_le"
    /\ origin.le
    /\ ret = origin.hex
    /\ call.self # origin.hex
    /\ call.self[1] = origin.hex[63]
    /\ call.self[2] = origin.hex[64]

----------------------------------------------------------------------------
(* Properties of verify on a Signature of Signature::new (SigSpec).        *)

\* C15: verify does not enforce the range of r and s.  For a Signature
\* built by Signature::new with r or s outside [1, n) on a curve of prime
\* order n over a prime field, verify returns Ok(true) or Ok(false), never
\* an error.
C15_OutOfRangeGivesBoolean ==
    (/\ call.op = "verify"
     /\ origin = None
     /\ call.hash.ok
     /\ Prime(curve.n)
     /\ Prime(curve.p)
     /\ (sig.r \notin 1..(curve.n - 1) \/ sig.s \notin 1..(curve.n - 1)))
    => ret.ok /\ ret.val \in BOOLEAN

----------------------------------------------------------------------------
(* Properties of the Decimal input of sha256 (ShaSpec).                    *)

\* m is a decimal integer: an optional sign and at least one decimal digit.
IsDecimalInteger(m) ==
    LET digits == IF m # <<>> /\ m[1] \in {43, 45} THEN Tail(m) ELSE m
    IN digits # <<>> /\ \A i \in 1..Len(digits) : digits[i] \in 48..57

\* The decimal integer m is above i128::MAX or below i128::MIN.
OutsideI128(m) ==
    LET digits == IF m[1] \in {43, 45} THEN Tail(m) ELSE m
        magnitude == [i \in 1..Len(digits) |-> digits[i] - 48]
    IN DigitsGreater(magnitude, IF m[1] = 45 THEN I128MinDigits ELSE I128MaxDigits)

\* C16: sha256(m, Decimal) fails with DecimalTooBig for every decimal
\* integer m outside the range of i128, above the maximum as well as below
\* the minimum, and with InvalidDecimal only when m is not a decimal
\* integer.
C16_DecimalErrors ==
    (call.op = "sha256" /\ call.input_type = "Decimal" /\ call.of = None)
    => /\ (IsDecimalInteger(call.message) /\ OutsideI128(call.message))
              => ret = Err("DecimalTooBig")
       /\ ret = Err("InvalidDecimal") => ~IsDecimalInteger(call.message)

----------------------------------------------------------------------------
(* Properties of mod_inv and get_mod (ModSpec, ModFairSpec).               *)

\* The greatest common divisor of x >= 0 and y >= 0.
RECURSIVE Gcd(_, _)
Gcd(x, y) == IF y = 0 THEN x ELSE Gcd(y, x % y)

\* mod_inv(a0, p) has returned.
ModInvDone == call.op = "mod_inv" /\ call.pc = "done"

\* C17: mod_inv(a, p) is correct and complete on coprime inputs.  For
\* p > 1 and a (negative, in [1, p) or above p) with gcd(a, p) = 1 it
\* returns Ok(y) with 0 <= y < p and (a * y) mod p = 1, and every Ok(y) it
\* returns satisfies that relation; the loop run pass by pass returns what
\* mod_inv returns.
C17_ModInvCorrect ==
    ModInvDone
    => /\ (call.p > 1 /\ Gcd(Abs(call.a0), call.p) = 1) => ret.ok
       /\ ret.ok => /\ call.p > 1
                    /\ ret.val \in 0..(call.p - 1)
                    /\ (call.a0 * ret.val) % call.p = 1
       /\ ret = mod_inv(call.a0, call.p)

\* C17, reached: mod_inv returned the inverse of a negative a after more
\* than one pass of its loop, and the inverse is not 1.
C17_Witness ==
    /\ ModInvDone
    /\ call.a0 < -1
    /\ call.p > 3
    /\ ret.ok
    /\ ret.val > 1
    /\ (call.a0 * ret.val) % call.p = 1

\* C18: mod_inv(a, p) fails with DivisionByZero whenever a is congruent to
\* 0 modulo p: for a = 0 and for every other multiple of p.
C18_MultipleIsDivisionByZero ==
    (ModInvDone /\ (call.a0 = 0 \/ (call.p # 0 /\ RustRem(call.a0, call.p) = 0)))
    => ret = Err("DivisionByZero")

\* C19, the outcome: for p > 0 and a with gcd(a, p) # 1 that is not a
\* multiple of p, mod_inv returns the error NotPrime.
C19_NotCoprimeOutcome ==
    (ModInvDone /\ call.p > 0 /\ Gcd(Abs(call.a0), call.p) # 1 /\ call.a0 % call.p # 0)
    => ret = Err("NotPrime")

\* C19: for every p > 0 and every a with gcd(a, p) # 1 that is not a
\* multiple of p, the loop of mod_inv terminates and mod_inv returns the
\* error NotPrime, never an Ok value and never a panic; the loop terminates
\* for every other input too, a > p and p = 0 among them.
C19_NotCoprimeIsNotPrime ==
    /\ []C19_NotCoprimeOutcome
    /\ (call.op = "mod_inv") ~> ModInvDone

\* C19, reached: mod_inv returned NotPrime for an a above p that shares a
\* factor with p and is not a multiple of it.
C19_Witness ==
    /\ ModInvDone
    /\ call.p > 2
    /\ call.a0 > call.p
    /\ Gcd(call.a0, call.p) # 1
    /\ call.a0 % call.p # 0
    /\ ret = Err("NotPrime")

----------------------------------------------------------------------------
(* Properties of multiply against repeated addition (PointSpec).           *)

\* The n-fold sum P + P + ... + P for n >= 1, computed with add from the
\* left; an error of add ends the sum.
RECURSIVE RepeatedAdd(_, _, _)
RepeatedAdd(self, P, n) ==
    IF n = 1 THEN Ok(P)
    ELSE Let(RepeatedAdd(self, P, n - 1), LAMBDA before :
         IF ~before.ok THEN before ELSE Curve_add(self, before.val, P))

\* What repeated addition gives for the scalar k.
SumOf(self, P, k) ==
    IF k = 0 THEN Ok(PointAtInfinity)
    ELSE IF k > 0 THEN RepeatedAdd(self, P, k)
    ELSE RepeatedAdd(self, point_neg(P, self.p).val, -k)

\* multiply was called with an on-curve point on a curve over a prime
\* field.
MultiplyOnPrimeField ==
    /\ call.op = "multiply"
    /\ curve.p >= 2
    /\ IsPrime(curve.p)
    /\ is_on_curve(curve, call.p)

\* C20: scalar multiplication equals repeated addition.  On a curve over a
\* prime field, for every on-curve point P and every integer k,
\* multiply(P, k) returns the point at infinity for k = 0, the |k|-fold sum
\* of P computed with add for k > 0 and the |k|-fold sum of point_neg(P)
\* for k < 0, also when an intermediate accumulator is infinity, P or -P;
\* on y^2 = x^3 + 2x + 3 mod 97, (3, 6) * 2 = (80, 10) and
\* (0, 10) * 35 = (53, 73).
C20_MultiplyIsRepeatedAdd ==
    MultiplyOnPrimeField
    => /\ ret.ok
       /\ ret = SumOf(curve, call.p, call.k)
       /\ (curve.p = 97 /\ call.p = Point(3, 6) /\ call.k = 2) => ret.val = Point(80, 10)
       /\ (curve.p = 97 /\ call.p = Point(0, 10) /\ call.k = 35) => ret.val = Point(53, 73)

\* The coordinates of P are reduced modulo p.
ReducedMod(P, p) == P.inf \/ (P.x \in 0..(p - 1) /\ P.y \in 0..(p - 1))

\* The part of C20 that holds: for the points with reduced coordinates on a
\* curve over an odd prime field.
C20_OnOddReduced ==
    (MultiplyOnPrimeField /\ curve.p > 2 /\ ReducedMod(call.p, curve.p)) => C20_MultiplyIsRepeatedAdd

----------------------------------------------------------------------------
(* Properties of add and double against the addition law (PointSpec).      *)

\* The quotients num / den in the field of p elements: the s in [0, p) with
\* s * den = num modulo p.
Quotients(num, den, p) == {s \in 0..(p - 1) : (s * den - num) % p = 0}

\* The point the line of slope s through P and Q meets the curve in,
\* reflected.
ThirdPoint(s, P, Q, p) ==
    LET x == (s * s - P.x - Q.x) % p
    IN Point(x, (s * (P.x - x) - P.y) % p)

\* The tangent formula at the finite point P.
TangentLaw(self, P) ==
    {ThirdPoint(s, P, P, self.p) : s \in Quotients(3 * P.x * P.x + self.a, 2 * P.y, self.p)}

\* The chord formula through the finite points P and Q.
ChordLaw(self, P, Q) ==
    {ThirdPoint(s, P, Q, self.p) : s \in Quotients(P.y - Q.y, P.x - Q.x, self.p)}

\* The points the case analysis of double allows.
DoubleLaw(self, P) ==
    IF P.inf THEN {PointAtInfinity}
    ELSE IF P.y = 0 THEN {PointAtInfinity}
    ELSE TangentLaw(self, P)

\* The points the case analysis of add allows.
AddLaw(self, P, Q) ==
    IF P = Q THEN DoubleLaw(self, P)
    ELSE IF P.inf THEN {Q}
    ELSE IF Q.inf THEN {P}
    ELSE IF P.x = Q.x THEN {PointAtInfinity}
    ELSE ChordLaw(self, P, Q)

\* add or double was called with on-curve points on a curve over a prime
\* field.
AddOnPrimeField ==
    /\ curve.p >= 2
    /\ IsPrime(curve.p)
    /\ \/ call.op = "add" /\ is_on_curve(curve, call.p) /\ is_on_curve(curve, call.q)
       \/ call.op = "double" /\ is_on_curve(curve, call.p)

\* C21: add implements the addition law by its case analysis.  For on-curve
\* inputs, P = Q gives double(P), which is infinity when P is infinity or
\* P.y = 0 and the tangent formula with slope (3x^2 + a) / (2y) otherwise;
\* P = infinity gives Q and Q = infinity gives P; distinct finite points of
\* equal x give infinity; otherwise the chord formula with slope
\* (P.y - Q.y) / (P.x - Q.x) mod p.  On y^2 = x^3 + 2x + 3 mod 97,
\* add((17, 10), (95, 31)) = (1, 54) and double((24, 2)) = (65, 65).
C21_AddLaw ==
    AddOnPrimeField
    => /\ ret.ok
       /\ call.op = "add" => ret.val \in AddLaw(curve, call.p, call.q)
       /\ call.op = "double" => ret.val \in DoubleLaw(curve, call.p)
       /\ (call.op = "add" /\ call.p = call.q) => ret = double(curve, call.p)
       /\ (call.op = "add" /\ curve.p = 97 /\ call.p = Point(17, 10) /\ call.q = Point(95, 31))
            => ret.val = Point(1, 54)
       /\ (call.op = "double" /\ curve.p = 97 /\ call.p = Point(24, 2))
            => ret.val = Point(65, 65)

\* The part of C21 that holds: for the points with reduced coordinates on a
\* curve over an odd prime field.
C21_OnOddReduced ==
    (/\ AddOnPrimeField
     /\ curve.p > 2
     /\ ReducedMod(call.p, curve.p)
     /\ call.op = "add" => ReducedMod(call.q, curve.p))
    => C21_AddLaw

----------------------------------------------------------------------------
(* Properties of verify against the verification formula (SigSpec).        *)

\* The verification formula with its scalars reduced modulo n:
\* w = s^-1 mod n, P1 = (e * w mod n) * G, P2 = (r * w mod n) * Q,
\* P3 = P1 + P2, accept iff P3 is finite and P3.x = r.
VerifyFormula(self, hash) ==
    IF ~hash.ok THEN HashFailure(hash)
    ELSE Let(mod_inv(self.s, self.curve.n), LAMBDA w :
         IF ~w.ok THEN MyshaError(w)
         ELSE Let(multiply(self.curve, self.curve.g, (hash.val * w.val) % self.curve.n), LAMBDA P1 :
              Let(multiply(self.curve, self.public, (self.r * w.val) % self.curve.n), LAMBDA P2 :
              IF ~P1.ok THEN MyshaError(P1)
              ELSE IF ~P2.ok THEN MyshaError(P2)
              ELSE Let(Curve_add(self.curve, P1.val, P2.val), LAMBDA P3 :
                   IF ~P3.ok THEN MyshaError(P3)
                   ELSE Ok(~P3.val.inf /\ P3.val.x = self.r)))))

\* verify was called on a Signature whose public point is on its curve.
VerifyCalled ==
    /\ call.op = "verify"
    /\ is_on_curve(sig.curve, sig.public)

\* C22: verify returns the verdict of the verification formula with its
\* scalars reduced modulo n, for every Signature (r, s, C, Q) whose Q is on
\* C, in the subgroup generated by G or not, and every digest e; P3.x is
\* compared with r as an integer.
C22_VerifyIsFormula ==
    VerifyCalled => ret = VerifyFormula(sig, call.hash)

\* The part of C22 that holds: for the public points that n sends to the
\* point at infinity, with coordinates reduced modulo an odd prime p.
C22_OnOrderDividingN ==
    (/\ VerifyCalled
     /\ sig.curve.p > 2
     /\ IsPrime(sig.curve.p)
     /\ ReducedMod(sig.public, sig.curve.p)
     /\ ReducedMod(sig.curve.g, sig.curve.p)
     /\ multiply(sig.curve, sig.public, sig.curve.n) = Ok(PointAtInfinity))
    => ret = VerifyFormula(sig, call.hash)

----------------------------------------------------------------------------
(* Properties of sign (EcdsaSpec).                                         *)

\* sign was called on a message that hashes.
SignCalled == call.op = "sign" /\ call.hash.ok

\* The point z * G of the call of sign, z being the nonce it drew.
NonceTimesG == multiply(curve, curve.g, origin.random_nonce)

\* The point k * G of the signer.
PrivateTimesG == multiply(curve, curve.g, key.private)

\* C23: sign computes, for the single nonce z it draws,
\* r = (z * G).x mod n and s = z^-1 * (e + k * r) mod n, with no retry:
\* when r = 0 or s = 0 it still returns Ok(Signature) with that zero, and
\* every returned Signature has 0 <= r < n, 0 <= s < n, the curve of the
\* signer and the public point Q = k * G.
C23_SignFormula ==
    SignCalled
    => /\ ret.ok
          => /\ NonceTimesG.ok /\ ~NonceTimesG.val.inf
             /\ ret.val.r = NonceTimesG.val.x % curve.n
             /\ (ret.val.s * origin.random_nonce) % curve.n
                    = (call.hash.val + key.private * ret.val.r) % curve.n
             /\ Gcd(origin.random_nonce, curve.n) = 1
             /\ ret.val.r \in 0..(curve.n - 1)
             /\ ret.val.s \in 0..(curve.n - 1)
             /\ ret.val.curve = key.curve
             /\ ret.val.public = PrivateTimesG.val
       /\ (/\ NonceTimesG.ok /\ ~NonceTimesG.val.inf
           /\ PrivateTimesG.ok
           /\ Gcd(origin.random_nonce, curve.n) = 1)
          => ret.ok

\* C23, reached: sign returned a Signature whose r is 0 for a nonce whose
\* point z * G has a non-zero x coordinate.
C23_Witness ==
    /\ SignCalled
    /\ ret.ok
    /\ ret.val.r = 0
    /\ NonceTimesG.val.x > 0
    /\ ret.val.s > 0

\* sign returned a Signature whose s is 0.
C23_ZeroS == SignCalled /\ ret.ok /\ ret.val.s = 0 /\ ret.val.r > 0

----------------------------------------------------------------------------
(* Properties of the errors of Curve::new (Spec).                          *)

\* The call that gave r did not return: it panicked.
Panicked(r) == ~r.ok /\ r.panic

\* The errors of the creation of a curve.
CreationErrors ==
    {Err(e) : e \in {"GeneratorOnInfinity", "SingularCurve", "InvalidOrderN",
                     "GeneratorNotOnCurve", "DivisionByZero"}}

\* C24: NotPrime is never returned by Curve::new.  For every parameter
\* tuple Curve::new returns Ok or one of the creation errors
\* GeneratorOnInfinity, SingularCurve, InvalidOrderN, GeneratorNotOnCurve
\* and DivisionByZero (the panic of an overflowing discriminant set aside).
C24_NotPrimeNotAtCreation ==
    (call.op = "Curve::new" /\ ~Panicked(ret))
    => /\ ret # Err("NotPrime")
       /\ ret.ok \/ ret \in CreationErrors

----------------------------------------------------------------------------
(* Properties of the public point of a KeyPair (KeySpec).                  *)

\* C25: a KeyPair always holds a valid public key.  For every curve
\* accepted by Curve::new and every k accepted by KeyPair::new or
\* KeyPair::from_private, the stored public point is on the curve and is
\* not the point at infinity, so the PubKey that KeyPair::public returns
\* satisfies the invariants PubKey::new enforces.
C25_KeyPairPublicValid ==
    /\ (key # None /\ key.type = "KeyPair")
       => /\ is_on_curve(key.curve, key.public)
          /\ key.public # PointAtInfinity
    /\ call.op = "KeyPair::public"
       => PubKey_new(ret.public, ret.curve) = Ok(ret)

\* The part of C25 that holds: the stored public point is on the curve.
C25_PublicOnCurve ==
    /\ (key # None /\ key.type = "KeyPair") => is_on_curve(key.curve, key.public)
    /\ call.op = "KeyPair::public" => PubKey_new(ret.public, ret.curve) # Err("NotOnCurve")

----------------------------------------------------------------------------
(* Properties of the unwraps of sign (EcdsaSpec).                          *)

\* C26: the unreachable assertions of sign are not observable under valid
\* inputs.  For every curve accepted by Curve::new, every key with
\* 0 < k < n and every nonce z in [1, n), z * G is a finite point, so the
\* unwrap of its x coordinate and the unwraps on r and s never fail: sign
\* returns a Signature or an error and does not panic.
C26_SignNeverPanics ==
    call.op = "sign"
    => /\ ~Panicked(ret)
       /\ (call.hash.ok /\ NonceTimesG.ok) => ~NonceTimesG.val.inf

\* The part of C26 that holds: on a curve whose n is the order of G, no
\* multiple of G below n being the point at infinity.
C26_OnExactOrder ==
    (/\ call.op = "sign"
     /\ \A j \in 1..(curve.n - 1) : multiply(curve, curve.g, j) # Ok(PointAtInfinity))
    => C26_SignNeverPanics

----------------------------------------------------------------------------
(* Properties of the coordinates of the returned points (PointSpec).       *)

\* The call of add, double or multiply had inputs accepted by is_on_curve.
PointCallOnCurve ==
    /\ call.op \in {"add", "double", "multiply"}
    /\ is_on_curve(curve, call.p)
    /\ call.op = "add" => is_on_curve(curve, call.q)

\* C27: every finite point returned by add, double or multiply has both
\* coordinates reduced into the field, 0 <= x < p and 0 <= y < p, for every
\* input accepted by is_on_curve, which does not bound the coordinates, the
\* paths that return an input point unchanged included (add with infinity,
\* multiply by 1).
C27_ReturnedPointsReduced ==
    (PointCallOnCurve /\ ret.ok /\ ~ret.val.inf)
    => /\ ret.val.x \in 0..(curve.p - 1)
       /\ ret.val.y \in 0..(curve.p - 1)

\* The part of C27 that holds: for the inputs whose coordinates are
\* reduced.
C27_OnReducedInputs ==
    (/\ PointCallOnCurve
     /\ ReducedMod(call.p, curve.p)
     /\ call.op = "add" => ReducedMod(call.q, curve.p))
    => C27_ReturnedPointsReduced

----------------------------------------------------------------------------
(* Properties of the two ways to sign (EcdsaSpec).                         *)

\* The KeyPair and the PrivKey of the private scalar of the signer, and the
\* KeyPair made of that PrivKey.
SignerKeyPair == KeyPair_new(key.private, curve)
SignerPrivKey == PrivKey_new(key.private, curve)
SignerFromPrivate == KeyPair_from_private(SignerPrivKey.val)

\* C28: PrivKey::sign and KeyPair::sign are equivalent.  For the same
\* curve, private scalar k, message and nonce z, PrivKey::new(k, C).sign and
\* KeyPair::new(k, C).sign return the same outcome, with the same r, s,
\* curve and public point: the public point PrivKey::sign computes again is
\* the one stored in the KeyPair.
C28_SignEquivalent ==
    (call.op = "sign" /\ SignerKeyPair.ok /\ SignerPrivKey.ok)
    => /\ ret = KeyPair_sign(SignerKeyPair.val, call.hash, origin.random_nonce)
       /\ ret = PrivKey_sign(SignerPrivKey.val, call.hash, origin.random_nonce)
       /\ SignerFromPrivate = SignerKeyPair
       /\ ret.ok => ret.val.public = SignerKeyPair.val.public

\* C28, reached: PrivKey::sign returned a Signature whose public point is
\* not G.
C28_Witness ==
    /\ call.op = "sign"
    /\ key.type = "PrivKey"
    /\ SignerKeyPair.ok
    /\ ret.ok
    /\ ret.val.public # curve.g
    /\ ~ret.val.public.inf

----------------------------------------------------------------------------
(* Properties of verify under the negation of s (SigSpec).                 *)

\* The Signature of the call with n - s in the place of s.
NegatedS == Signature(sig.r, sig.curve.n - sig.s, sig.curve, sig.public)

\* verify was called on a Signature with 0 < s < n on a curve whose n is
\* prime.
VerifyOnPrimeOrder ==
    /\ call.op = "verify"
    /\ sig.curve.n >= 2
    /\ IsPrime(sig.curve.n)
    /\ sig.s \in 1..(sig.curve.n - 1)

PublicOfOrderDividingN ==
    /\ sig.curve.p > 2
    /\ IsPrime(sig.curve.p)
    /\ ReducedMod(sig.public, sig.curve.p)
    /\ ReducedMod(sig.curve.g, sig.curve.p)
    /\ multiply(sig.curve, sig.public, sig.curve.n) = Ok(PointAtInfinity)

----------------------------------------------------------------------------
(* Properties of the non-singularity test of Curve::new (Spec).            *)

\* C30: the non-singularity test of Curve::new evaluates 4a^3 + 27b^2
\* without 32-bit overflow for every pair of 32-bit signed a and b, so
\* SingularCurve is returned exactly when the mathematical value
\* 4a^3 + 27b^2 is congruent to 0 modulo p, for G # infinity and p # 0.
C30_DiscriminantExact ==
    (call.op = "Curve::new" /\ call.g # PointAtInfinity /\ call.p # 0)
    => /\ ~Discriminant(call.a, call.b).ovf
       /\ ~Panicked(ret)
       /\ ret = Err("SingularCurve") <=> DiscriminantMod(call.a, call.b, call.p) = 0

\* The part of C30 that holds: for the coefficients whose discriminant fits
\* 32 bits.
C30_OnSmallCoefficients ==
    (call.op = "Curve::new" /\ ~Discriminant(call.a, call.b).ovf) => C30_DiscriminantExact
====
